---- MODULE Spec2Model ----
(***************************************************************************)
(* A model of the GFF codec of ndu.py (class _Gff._Single): the internal   *)
(* document held by one _Single instance, the three files it reads and     *)
(* writes (binary GFF as the value tree exchanged with the nwn library,    *)
(* JSON, and the NDUGFF line-oriented text), and the six operations        *)
(* load_gff, load_json, load_ndugff, write_gff, write_json, write_ndugff.  *)
(* The path tests of class _Paths and the file type _Erf._Single gives an  *)
(* archive are functions of their arguments: a second specification,       *)
(* ToolsSpec, applies them to the paths and extensions of bounded sets.    *)
(*                                                                         *)
(* Texts are sequences of one-character strings, so that escaping,         *)
(* quoting, stripping and decimal formatting are computed character by     *)
(* character as the code computes them.  A python dict keyed by _Key       *)
(* objects (which hash by identity) is a sequence of fields; a python dict *)
(* keyed by strings (JSON objects, gff.Struct) is a sequence of members    *)
(* with unique keys, updated in place.                                     *)
(***************************************************************************)
EXTENDS Integers, Sequences, FiniteSets, TLC

VARIABLES
    ndugff_dict,   \* self._ndugff_dict: [isNone, items]
    gff_file,      \* the binary file, as the (root struct, file type) of gff.read / gff.write
    json_file,     \* the .json file, as the value json.load / json.dump exchange
    dsl_file,      \* the .ndugff file, as its text
    last,          \* the last operation made and how it ended
    chain,         \* progress along load_gff, write_json, load_json, write_gff (twice)
    call,          \* a call of a path test of _Paths or of _get_erf_type_by_extension
    erf,           \* an archive, the folder it is extracted to and the archive made of it
    keybif,        \* a call of _KeyBif: the tokens of a recipes file or a filename and filters
    printed_line   \* the line number of the last message of log_and_raise, 0 before any

vars == <<ndugff_dict, gff_file, json_file, dsl_file, last, chain, call, erf, keybif,
          printed_line>>

-----------------------------------------------------------------------------
(* Characters *)

BSL == "\\"
QUOTE == "\""
CR == "\r"
LF == "\n"
TAB == "\t"
SP == " "

UPPER == <<"A","B","C","D","E","F","G","H","I","J","K","L","M",
           "N","O","P","Q","R","S","T","U","V","W","X","Y","Z">>
LOWER == <<"a","b","c","d","e","f","g","h","i","j","k","l","m",
           "n","o","p","q","r","s","t","u","v","w","x","y","z">>
DIGITS == <<"0","1","2","3","4","5","6","7","8","9">>

IndexIn(seq, c) == CHOOSE i \in 1..Len(seq) : seq[i] = c
IsIn(seq, c) == \E i \in 1..Len(seq) : seq[i] = c

\* str.lower() on one character
LowerChar(c) == IF IsIn(UPPER, c) THEN LOWER[IndexIn(UPPER, c)] ELSE c

\* the code point python compares strings by
Ord(c) ==
    IF IsIn(UPPER, c) THEN 64 + IndexIn(UPPER, c)
    ELSE IF IsIn(LOWER, c) THEN 96 + IndexIn(LOWER, c)
    ELSE IF IsIn(DIGITS, c) THEN 47 + IndexIn(DIGITS, c)
    ELSE CASE c = TAB -> 9 [] c = LF -> 10 [] c = CR -> 13 [] c = SP -> 32
           [] c = QUOTE -> 34 [] c = "#" -> 35 [] c = "+" -> 43 [] c = "-" -> 45
           [] c = "/" -> 47 [] c = "=" -> 61 [] c = BSL -> 92 [] c = "_" -> 95
           [] OTHER -> 127

Lower(s) == [i \in 1..Len(s) |-> LowerChar(s[i])]

RECURSIVE StrLess(_, _)
\* python's s < t on strings
StrLess(s, t) ==
    IF t = <<>> THEN FALSE
    ELSE IF s = <<>> THEN TRUE
    ELSE IF Ord(s[1]) # Ord(t[1]) THEN Ord(s[1]) < Ord(t[1])
    ELSE StrLess(Tail(s), Tail(t))

IsPrefix(p, s) == Len(p) <= Len(s) /\ SubSeq(s, 1, Len(p)) = p

Drop(s, n) == SubSeq(s, n + 1, Len(s))

RECURSIVE Replace(_, _, _)
\* str.replace(pat, rep): leftmost, non-overlapping
Replace(s, pat, rep) ==
    IF s = <<>> THEN <<>>
    ELSE IF IsPrefix(pat, s) THEN rep \o Replace(Drop(s, Len(pat)), pat, rep)
    ELSE <<s[1]>> \o Replace(Tail(s), pat, rep)

Contains(s, c) == \E i \in 1..Len(s) : s[i] = c

IsSpace(c) == c \in {SP, TAB, LF, CR}

RECURSIVE RStrip(_)
\* str.rstrip()
RStrip(s) ==
    IF s = <<>> THEN <<>>
    ELSE IF IsSpace(s[Len(s)]) THEN RStrip(SubSeq(s, 1, Len(s) - 1))
    ELSE s

RECURSIVE LStrip(_)
LStrip(s) ==
    IF s = <<>> THEN <<>>
    ELSE IF IsSpace(s[1]) THEN LStrip(Tail(s))
    ELSE s

\* str.strip()
Strip(s) == LStrip(RStrip(s))

RECURSIVE RStripChar(_, _)
RStripChar(s, c) ==
    IF s = <<>> THEN <<>>
    ELSE IF s[Len(s)] = c THEN RStripChar(SubSeq(s, 1, Len(s) - 1), c)
    ELSE s

RECURSIVE LStripChar(_, _)
LStripChar(s, c) ==
    IF s = <<>> THEN <<>>
    ELSE IF s[1] = c THEN LStripChar(Tail(s), c)
    ELSE s

\* str.strip(c)
StripChar(s, c) == LStripChar(RStripChar(s, c), c)

(* Python ints are unbounded and the sentinel 0xFFFFFFFF does not fit the   *)
(* model checker's integers, so an int is a sign and two limbs:            *)
(* value = hi * 2^16 + lo.                                                  *)

LIMB == 2 ^ 16

PyInt(neg, hi, lo) == [neg |-> neg, hi |-> hi, lo |-> lo]
\* a small int, -2^16 < n < 2^16
MkInt(n) == IF n < 0 THEN PyInt(TRUE, 0, 0 - n) ELSE PyInt(FALSE, 0, n)
Zero == MkInt(0)

RECURSIVE MagDigits(_, _)
\* the decimal digits of hi * 2^16 + lo, by long division by ten
MagDigits(hi, lo) ==
    LET t == (hi % 10) * LIMB + lo
    IN  IF hi = 0 /\ lo < 10 THEN <<DIGITS[lo + 1]>>
        ELSE MagDigits(hi \div 10, t \div 10) \o <<DIGITS[(t % 10) + 1]>>

\* str(n) of a python int
IntToStr(n) == IF n.neg THEN <<"-">> \o MagDigits(n.hi, n.lo) ELSE MagDigits(n.hi, n.lo)

AllDigits(s) == s # <<>> /\ \A i \in 1..Len(s) : IsIn(DIGITS, s[i])

RECURSIVE DigitsValue(_, _, _)
\* the value of the digits s behind the value hi * 2^16 + lo already read
DigitsValue(s, hi, lo) ==
    IF s = <<>> THEN <<hi, lo>>
    ELSE LET t == lo * 10 + (IndexIn(DIGITS, s[1]) - 1)
         IN  DigitsValue(Tail(s), hi * 10 + (t \div LIMB), t % LIMB)

\* int(s) accepts surrounding whitespace, one sign and decimal digits
IsIntText(s) ==
    LET t == Strip(s)
    IN  t # <<>> /\ AllDigits(IF t[1] \in {"-", "+"} THEN Tail(t) ELSE t)

StrToInt(s) ==
    LET t == Strip(s)
        signed == t[1] \in {"-", "+"}
        mag == DigitsValue(IF signed THEN Tail(t) ELSE t, 0, 0)
    IN  PyInt(t[1] = "-" /\ mag # <<0, 0>>, mag[1], mag[2])

-----------------------------------------------------------------------------
(* The registries of _Single.__init__ *)

\* 0xFFFFFFFF
GFF_UINT32_SENTINEL == PyInt(FALSE, LIMB - 1, LIMB - 1)
PRETTY_SENTINEL == MkInt(-1)

\* the keys of _FIELD_TYPES, in the order the dict literal gives them
FIELD_TYPES ==
    <<"gff.Byte", "gff.Char", "gff.Word", "gff.Short", "gff.Int", "gff.Dword",
      "gff.Int64", "gff.Dword64", "gff.Float", "gff.Double", "gff.MagicTag",
      "gff.ResRef", "gff.CExoString", "gff.Language", "gff.Base64String",
      "gff.CExoLocString", "gff.Struct", "gff.List">>

NODE_TYPES == {"gff.CExoLocString", "gff.Struct", "gff.List"}
ESCAPED_STRING_TYPES == {"gff.CExoString", "gff.Language"}
LITERAL_STRING_TYPES_none == {}
LITERAL_STRING_TYPES == {"gff.ResRef", "gff.MagicTag", "gff.Base64String"}

\* _FIELD_TYPES[t]["internal_value_type"]
InternalValueType(t) ==
    CASE t \in {"gff.Byte", "gff.Char", "gff.Word", "gff.Short", "gff.Int",
                "gff.Dword", "gff.Int64", "gff.Dword64"} -> "int"
      [] t \in {"gff.Float", "gff.Double"} -> "float"
      [] t \in {"gff.MagicTag", "gff.ResRef", "gff.CExoString", "gff.Language",
                "gff.Base64String"} -> "str"
      [] t \in {"gff.CExoLocString", "gff.Struct"} -> "dict"
      [] t = "gff.List" -> "list"

\* _FIELD_TYPES[t]["json_type_name"]; gff.Language has none
JsonTypeName(t) ==
    CASE t = "gff.Byte" -> <<"b","y","t","e">>
      [] t = "gff.Char" -> <<"c","h","a","r">>
      [] t = "gff.Word" -> <<"w","o","r","d">>
      [] t = "gff.Short" -> <<"s","h","o","r","t">>
      [] t = "gff.Int" -> <<"i","n","t">>
      [] t = "gff.Dword" -> <<"d","w","o","r","d">>
      [] t = "gff.Int64" -> <<"i","n","t","6","4">>
      [] t = "gff.Dword64" -> <<"d","w","o","r","d","6","4">>
      [] t = "gff.Float" -> <<"f","l","o","a","t">>
      [] t = "gff.Double" -> <<"d","o","u","b","l","e">>
      [] t = "gff.MagicTag" -> <<"_","_","d","a","t","a","_","t","y","p","e">>
      [] t = "gff.ResRef" -> <<"r","e","s","r","e","f">>
      [] t = "gff.CExoString" -> <<"c","e","x","o","s","t","r","i","n","g">>
      [] t = "gff.Language" -> <<>>
      [] t = "gff.Base64String" -> <<"v","o","i","d">>
      [] t = "gff.CExoLocString" -> <<"c","e","x","o","l","o","c","s","t","r","i","n","g">>
      [] t = "gff.Struct" -> <<"s","t","r","u","c","t">>
      [] t = "gff.List" -> <<"l","i","s","t">>

\* _LANGUAGES: ids 0..11 to names
LANGUAGES ==
    << <<"E","N","G","L","I","S","H">>, <<"E","N","G","L","I","S","H","_","F">>,
       <<"F","R","E","N","C","H">>, <<"F","R","E","N","C","H","_","F">>,
       <<"G","E","R","M","A","N">>, <<"G","E","R","M","A","N","_","F">>,
       <<"I","T","A","L","I","A","N">>, <<"I","T","A","L","I","A","N","_","F">>,
       <<"S","P","A","N","I","S","H">>, <<"S","P","A","N","I","S","H","_","F">>,
       <<"P","O","L","I","S","H">>, <<"P","O","L","I","S","H","_","F">>
    >>

IsLanguageId(i) == i \in 0..(Len(LANGUAGES) - 1)
LanguageName(i) == LANGUAGES[i + 1]
IsLanguageName(n) == IsIn(LANGUAGES, n)
LanguageId(n) == IndexIn(LANGUAGES, n) - 1

\* the names the code gives to the two top-level fields and to the strref field
ROOT_NAME == <<"_","_","r","o","o","t","_","_">>
TYPE_NAME == <<"_","_","t","y","p","e","_","_">>
STRREF_NAME == <<"s","t","r","r","e","f">>

-----------------------------------------------------------------------------
(* Fields of the internal dictionary: a _Key (type, name, id) and its value *)
(* (ival for an int, sval for a str, bval for bytes, kids for a dict or a   *)
(* list).  An element of a python list is a dict of its own: a Node of     *)
(* type "dict".                                                            *)

Node(t, n, h, i, iv, sv, ks) ==
    [type |-> t, name |-> n, hasId |-> h, id |-> i, ival |-> iv, sval |-> sv,
     bval |-> <<>>, kids |-> ks]

DictElem(ks) == Node("dict", <<>>, FALSE, Zero, Zero, <<>>, ks)

NoneDict == [isNone |-> TRUE, items |-> <<>>]
SomeDict(items) == [isNone |-> FALSE, items |-> items]
\* the truth value python gives self._ndugff_dict
Truthy(d) == ~d.isNone /\ d.items # <<>>

-----------------------------------------------------------------------------
(* _Dict.reorder *)

TypeIndex(t) == IndexIn(FIELD_TYPES, t)

\* sort_key(a) <= sort_key(b)
SortKeyLeq(a, b) ==
    \/ TypeIndex(a.type) < TypeIndex(b.type)
    \/ /\ TypeIndex(a.type) = TypeIndex(b.type)
       /\ ~StrLess(Lower(b.name), Lower(a.name))

RECURSIVE InsertSorted(_, _)
\* a dict keyed by the sort key: f takes the place of a field of its type and
\* lowercased name
InsertSorted_merging(sorted, f) ==
    IF sorted = <<>> THEN <<f>>
    ELSE IF sorted[1].type = f.type /\ Lower(sorted[1].name) = Lower(f.name)
    THEN <<f>> \o Tail(sorted)
    ELSE IF SortKeyLeq(sorted[1], f) THEN <<sorted[1]>> \o InsertSorted(Tail(sorted), f)
    ELSE <<f>> \o sorted

\* f goes behind every field whose key is not greater: sorted() is stable
InsertSorted(sorted, f) ==
    IF sorted = <<>> THEN <<f>>
    ELSE IF SortKeyLeq(sorted[1], f) THEN <<sorted[1]>> \o InsertSorted(Tail(sorted), f)
    ELSE <<f>> \o sorted

RECURSIVE SortedItems(_)
SortedItems(items) ==
    IF items = <<>> THEN <<>>
    ELSE InsertSorted(SortedItems(SubSeq(items, 1, Len(items) - 1)), items[Len(items)])

RECURSIVE sort_recursive(_)
\* applied to the items of a dict; the values that are dicts or lists are sorted in turn
sort_recursive(items) ==
    LET sorted == SortedItems(items)
        value(f) ==
            IF f.type = "gff.List"
            THEN [f EXCEPT !.kids = [i \in 1..Len(f.kids) |->
                     [f.kids[i] EXCEPT !.kids = sort_recursive(f.kids[i].kids)]]]
            ELSE IF f.kids # <<>> THEN [f EXCEPT !.kids = sort_recursive(f.kids)]
            ELSE f
    IN  [i \in 1..Len(sorted) |-> value(sorted[i])]

reorder_none(items) == items
reorder(items) == sort_recursive(items)

-----------------------------------------------------------------------------
(* base64.b64encode / base64.b64decode, on bytes as sequences of 0..255 *)

B64Char(i) ==
    IF i < 26 THEN UPPER[i + 1]
    ELSE IF i < 52 THEN LOWER[i - 25]
    ELSE IF i < 62 THEN DIGITS[i - 51]
    ELSE IF i = 62 THEN "+" ELSE "/"

IsB64Char(c) == IsIn(UPPER, c) \/ IsIn(LOWER, c) \/ IsIn(DIGITS, c) \/ c \in {"+", "/"}

B64Index(c) == CHOOSE i \in 0..63 : B64Char(i) = c

RECURSIVE b64encode(_)
b64encode(b) ==
    IF b = <<>> THEN <<>>
    ELSE IF Len(b) = 1 THEN
        <<B64Char(b[1] \div 4), B64Char((b[1] % 4) * 16), "=", "=">>
    ELSE IF Len(b) = 2 THEN
        <<B64Char(b[1] \div 4), B64Char((b[1] % 4) * 16 + b[2] \div 16),
          B64Char((b[2] % 16) * 4), "=">>
    ELSE
        <<B64Char(b[1] \div 4), B64Char((b[1] % 4) * 16 + b[2] \div 16),
          B64Char((b[2] % 16) * 4 + b[3] \div 64), B64Char(b[3] % 64)>>
        \o b64encode(Drop(b, 3))

\* the characters b64decode keeps: it discards what is outside the alphabet
B64Kept(s) == SelectSeq(s, LAMBDA c : IsB64Char(c) \/ c = "=")

\* b64decode raises binascii.Error (a ValueError) on incorrect padding
B64Valid(s) ==
    LET k == B64Kept(s)
        body == RStripChar(k, "=")
        pad == Len(k) - Len(body)
    IN  /\ Len(k) % 4 = 0
        /\ pad <= 2
        /\ ~Contains(body, "=")

RECURSIVE B64Groups(_)
B64Groups(body) ==
    IF Len(body) < 2 THEN <<>>
    ELSE LET a == B64Index(body[1])
             b == B64Index(body[2])
         IN  IF Len(body) = 2 THEN <<a * 4 + b \div 16>>
             ELSE LET c == B64Index(body[3])
                  IN  IF Len(body) = 3 THEN <<a * 4 + b \div 16, (b % 16) * 16 + c \div 4>>
                      ELSE <<a * 4 + b \div 16, (b % 16) * 16 + c \div 4,
                             (c % 4) * 64 + B64Index(body[4])>>
                           \o B64Groups(Drop(body, 4))

b64decode(s) == B64Groups(RStripChar(B64Kept(s), "="))

-----------------------------------------------------------------------------
(* The value tree of the nwn library: gff.read returns it, gff.write takes *)
(* it.  A gff.Struct is a dict from labels to typed values with a          *)
(* struct_id; a gff.List holds gff.Structs; a gff.CExoLocString holds a    *)
(* strref and entries keyed by GenderedLanguage (ival: lang * 2 + gender). *)

\* _FIELD_TYPES[t]["gff_value_type"]
GffValueType(t) ==
    CASE t = "gff.MagicTag" -> "str"
      [] t = "gff.Language" -> "nwn.GenderedLanguage"
      [] t = "gff.Base64String" -> "gff.VOID"
      [] OTHER -> t

IsGffValueType(g) == \E i \in 1..Len(FIELD_TYPES) : GffValueType(FIELD_TYPES[i]) = g

GffInt(t, n, v) == Node(t, n, FALSE, Zero, v, <<>>, <<>>)
GffStr(t, n, s) == Node(t, n, FALSE, Zero, Zero, s, <<>>)
GffVoid(n, b) == [Node("gff.VOID", n, FALSE, Zero, Zero, <<>>, <<>>) EXCEPT !.bval = b]
GffStruct(n, i, ks) == Node("gff.Struct", n, TRUE, i, Zero, <<>>, ks)
GffList(n, ks) == Node("gff.List", n, FALSE, Zero, Zero, <<>>, ks)
GffEntry(lang, s) == Node("nwn.GenderedLanguage", <<>>, FALSE, Zero, MkInt(lang), s, <<>>)
GffLoc(n, strref, entries) == Node("gff.CExoLocString", n, FALSE, Zero, strref, <<>>, entries)

NoGff == [exists |-> FALSE, partial |-> FALSE, file_type |-> <<>>,
          root |-> GffStruct(<<>>, Zero, <<>>)]
GffFile(tag, root) == [exists |-> TRUE, partial |-> FALSE, file_type |-> tag, root |-> root]
\* a file opened for writing and never filled
PartialGff == [NoGff EXCEPT !.exists = TRUE, !.partial = TRUE]

-----------------------------------------------------------------------------
(* load_gff *)

\* get_dsl_type of load_gff: the registry entry whose gff_value_type is g
gff_get_dsl_type(g) ==
    FIELD_TYPES[CHOOSE i \in 1..Len(FIELD_TYPES) : GffValueType(FIELD_TYPES[i]) = g]

\* get_ndugff_key of load_gff
gff_get_ndugff_key(dsl_type, name, hasId, id) ==
    IF dsl_type = "gff.Struct"
    THEN Node(dsl_type, name, TRUE, IF hasId THEN id ELSE GFF_UINT32_SENTINEL, Zero, <<>>, <<>>)
    ELSE Node(dsl_type, name, FALSE, Zero, Zero, <<>>, <<>>)

\* the normalisation get_ndugff_value of load_gff gives the escaped-string types
gff_normalize(s) == RStrip(Replace(s, <<CR, LF>>, <<LF>>))

\* get_ndugff_value of load_gff, put on its key
gff_get_ndugff_value(key, g) ==
    IF key.type = "gff.Base64String" THEN [key EXCEPT !.sval = b64encode(g.bval)]
    ELSE IF key.type \in ESCAPED_STRING_TYPES THEN [key EXCEPT !.sval = gff_normalize(g.sval)]
    ELSE IF InternalValueType(key.type) = "str" THEN [key EXCEPT !.sval = g.sval]
    ELSE [key EXCEPT !.ival = g.ival]

\* get_ndugff_cexolocstring of load_gff
gff_get_ndugff_cexolocstring(g) ==
    <<gff_get_ndugff_value(gff_get_ndugff_key("gff.Dword", STRREF_NAME, FALSE, Zero), g)>>
    \o [i \in 1..Len(g.kids) |->
          gff_get_ndugff_value(
              gff_get_ndugff_key("gff.Language", LanguageName(g.kids[i].ival.lo), FALSE, Zero),
              g.kids[i])]

\* get_ndugff_language_name raises ValueError on an unknown language
GffLanguagesKnown(g) ==
    \A i \in 1..Len(g.kids) : ~g.kids[i].ival.neg /\ g.kids[i].ival.hi = 0
                              /\ IsLanguageId(g.kids[i].ival.lo)

RECURSIVE gff_get_ndugff_dict(_)
\* get_ndugff_dict of load_gff, on the fields of a gff.Struct
gff_get_ndugff_dict(fields) ==
    LET one(g) ==
            LET dsl_type == gff_get_dsl_type(g.type)
                key == gff_get_ndugff_key(dsl_type, g.name, g.hasId, g.id)
            IN  IF dsl_type = "gff.Struct" THEN [key EXCEPT !.kids = gff_get_ndugff_dict(g.kids)]
                ELSE IF dsl_type = "gff.List" THEN
                    [key EXCEPT !.kids = [i \in 1..Len(g.kids) |->
                        DictElem(gff_get_ndugff_dict(<<[g.kids[i] EXCEPT !.name = <<>>]>>))]]
                ELSE IF dsl_type = "gff.CExoLocString" THEN
                    [key EXCEPT !.kids = gff_get_ndugff_cexolocstring(g)]
                ELSE gff_get_ndugff_value(key, g)
    IN  [i \in 1..Len(fields) |-> one(fields[i])]

RECURSIVE GffRaises(_)
\* a ValueError is raised on the way: an unknown value type or language
GffRaises(fields) ==
    \E i \in 1..Len(fields) :
        \/ ~IsGffValueType(fields[i].type)
        \/ fields[i].type = "gff.CExoLocString" /\ ~GffLanguagesKnown(fields[i])
        \/ fields[i].type \in {"gff.Struct", "gff.List"} /\ GffRaises(fields[i].kids)

\* the entry point of load_gff on an existing file: [outcome, dict]
load_gff(f) ==
    IF GffRaises(f.root.kids) THEN [outcome |-> "ValueError", dict |-> NoneDict]
    ELSE [outcome |-> "ok",
          dict |-> SomeDict(reorder(
              <<[gff_get_ndugff_key("gff.MagicTag", TYPE_NAME, FALSE, Zero)
                   EXCEPT !.sval = f.file_type],
                [gff_get_ndugff_key("gff.Struct", ROOT_NAME, FALSE, Zero)
                   EXCEPT !.kids = gff_get_ndugff_dict(f.root.kids)]>>))]

-----------------------------------------------------------------------------
(* write_gff *)

\* dict.update({f.name: f}) on a dict keyed by strings: the value is replaced
\* where the name is present already, and the field is appended where it is not
update(members, f) ==
    IF \E i \in 1..Len(members) : members[i].name = f.name
    THEN [i \in 1..Len(members) |-> IF members[i].name = f.name THEN f ELSE members[i]]
    ELSE Append(members, f)

RECURSIVE update_all(_, _)
update_all(members, fs) ==
    IF fs = <<>> THEN members
    ELSE update_all(update(members, fs[1]), Tail(fs))

\* get_gff_value: the converter of the field's type applied to its value
get_gff_value(f) ==
    LET g == Node(GffValueType(f.type), f.name, FALSE, Zero, Zero, <<>>, <<>>)
    IN  IF f.type = "gff.Base64String" THEN [g EXCEPT !.bval = b64decode(f.sval)]
        ELSE IF InternalValueType(f.type) = "str" THEN [g EXCEPT !.sval = f.sval]
        ELSE [g EXCEPT !.ival = f.ival]

RECURSIVE loc_entries(_)
\* the entries get_gff_cexolocstring collects, keyed by language
loc_entries(kids) ==
    IF kids = <<>> THEN <<>>
    ELSE LET k == kids[Len(kids)]
             rest == loc_entries(SubSeq(kids, 1, Len(kids) - 1))
         IN  IF k.type = "gff.Language"
             THEN LET e == GffEntry(LanguageId(k.name), k.sval)
                  IN  IF \E i \in 1..Len(rest) : rest[i].ival = e.ival
                      THEN [i \in 1..Len(rest) |->
                               IF rest[i].ival = e.ival THEN e ELSE rest[i]]
                      ELSE Append(rest, e)
             ELSE rest

RECURSIVE loc_strref(_)
\* the strref get_gff_cexolocstring ends with: the last gff.Dword named strref
loc_strref(kids) ==
    IF kids = <<>> THEN GFF_UINT32_SENTINEL
    ELSE LET k == kids[Len(kids)]
         IN  IF k.type = "gff.Dword" /\ k.name = STRREF_NAME THEN k.ival
             ELSE loc_strref(SubSeq(kids, 1, Len(kids) - 1))

get_gff_cexolocstring(f) == GffLoc(f.name, loc_strref(f.kids), loc_entries(f.kids))

RECURSIVE get_gff_struct(_)
\* get_gff_struct(key, dict), key and dict being one field here
get_gff_struct(f) ==
    LET one(k) ==
            IF k.type = "gff.Struct" THEN get_gff_struct(k)
            ELSE IF k.type = "gff.List" THEN
                GffList(k.name, [i \in 1..Len(k.kids) |->
                    [get_gff_struct(k.kids[i].kids[1]) EXCEPT !.name = <<>>]])
            ELSE IF k.type = "gff.CExoLocString" THEN get_gff_cexolocstring(k)
            ELSE get_gff_value(k)
    IN  GffStruct(f.name, f.id, update_all(<<>>, [i \in 1..Len(f.kids) |-> one(f.kids[i])]))

RECURSIVE WriteGffRaises(_)
\* what makes the conversion of a dict raise before the file is opened: a
\* base64 text b64decode refuses, a language name get_gff_language does not
\* know, a list element or a field the value tree has no place for
WriteGffRaises(kids) ==
    \E i \in 1..Len(kids) :
        LET k == kids[i]
        IN  \/ k.type = "gff.Base64String" /\ ~B64Valid(k.sval)
            \/ k.type \in {"gff.Language", "gff.MagicTag"}
            \/ k.type = "gff.CExoLocString"
               /\ \E j \in 1..Len(k.kids) :
                      k.kids[j].type = "gff.Language" /\ ~IsLanguageName(k.kids[j].name)
            \/ k.type = "gff.Struct" /\ WriteGffRaises(k.kids)
            \/ k.type = "gff.List"
               /\ \E j \in 1..Len(k.kids) :
                      \/ Len(k.kids[j].kids) # 1
                      \/ k.kids[j].kids[1].type # "gff.Struct"
                      \/ WriteGffRaises(k.kids[j].kids[1].kids)

\* the fields of the top level get_gff_data picks by name
NamedLast(items, name) ==
    LET hits == SelectSeq(items, LAMBDA f : f.name = name)
    IN  IF hits = <<>> THEN <<>> ELSE <<hits[Len(hits)]>>

\* get_gff_data and gff.write, on a truthy dict: [outcome, file]
write_gff(items, old) ==
    LET root == NamedLast(items, ROOT_NAME)
        type == NamedLast(items, TYPE_NAME)
    IN  IF root # <<>> /\ (root[1].type # "gff.Struct" \/ WriteGffRaises(root[1].kids))
        THEN [outcome |-> "raised", file |-> old]
        ELSE IF root = <<>> \/ type = <<>> \/ InternalValueType(type[1].type) # "str"
        THEN \* gff.write is handed None or a value that is no file type
             [outcome |-> "raised", file |-> PartialGff]
        ELSE [outcome |-> "ok",
              file |-> GffFile(get_gff_value(type[1]).sval,
                               [get_gff_struct(root[1]) EXCEPT !.name = <<>>])]

-----------------------------------------------------------------------------
(* JSON values, as json.load returns them and json.dump takes them: an     *)
(* object is a dict keyed by strings (mem: its members in order), an array *)
(* a list (mem: its elements, with empty keys).                            *)

JV(jt, iv, sv, mem) == [jt |-> jt, ival |-> iv, sval |-> sv, mem |-> mem]
JNull == JV("null", Zero, <<>>, <<>>)
JInt(i) == JV("int", i, <<>>, <<>>)
JStr(str) == JV("str", Zero, str, <<>>)
JObj(mem) == JV("obj", Zero, <<>>, mem)
Member(k, v) == [k |-> k, v |-> v]
JArr(vals) == JV("arr", Zero, <<>>, [i \in 1..Len(vals) |-> Member(<<>>, vals[i])])

JHas(o, k) == \E i \in 1..Len(o.mem) : o.mem[i].k = k
\* dict.get(k): None where the key is missing
JGet(o, k) == IF JHas(o, k) THEN o.mem[CHOOSE i \in 1..Len(o.mem) : o.mem[i].k = k].v ELSE JNull
\* dict.get(k, default)
JGetOr(o, k, d) == IF JHas(o, k) THEN JGet(o, k) ELSE d
\* dict.pop(k, None), as the dict it leaves
JDel(o, k) == [o EXCEPT !.mem = SelectSeq(o.mem, LAMBDA m : m.k # k)]
\* d[k] = v
JSet(o, k, v) ==
    [o EXCEPT !.mem = IF JHas(o, k)
                      THEN [i \in 1..Len(o.mem) |-> IF o.mem[i].k = k THEN Member(k, v) ELSE o.mem[i]]
                      ELSE Append(o.mem, Member(k, v))]

RECURSIVE jupdate(_, _)
\* dict.update on members keyed by strings
jupdate(mem, more) ==
    IF more = <<>> THEN mem
    ELSE jupdate(JSet(JObj(mem), more[1].k, more[1].v).mem, Tail(more))

\* the truth value python gives a JSON value
JTruthy(v) ==
    CASE v.jt = "null" -> FALSE
      [] v.jt \in {"int", "bool"} -> v.ival # Zero
      [] v.jt = "str" -> v.sval # <<>>
      [] OTHER -> v.mem # <<>>

\* type(v), in the names of internal_value_type
PyType(v) ==
    CASE v.jt = "int" -> "int"
      [] v.jt = "str" -> "str"
      [] v.jt = "obj" -> "dict"
      [] v.jt = "arr" -> "list"
      [] OTHER -> v.jt

K_type == <<"t","y","p","e">>
K_value == <<"v","a","l","u","e">>
K_value64 == <<"v","a","l","u","e","6","4">>
K_struct_id == <<"_","_","s","t","r","u","c","t","_","i","d">>
K_data_type == <<"_","_","d","a","t","a","_","t","y","p","e">>
K_id == <<"i","d">>

NoJson == [exists |-> FALSE, partial |-> FALSE, malformed |-> FALSE, value |-> JNull]
JsonFile(v) == [exists |-> TRUE, partial |-> FALSE, malformed |-> FALSE, value |-> v]
\* a text json.load refuses
MalformedJson == [NoJson EXCEPT !.exists = TRUE, !.malformed = TRUE]

-----------------------------------------------------------------------------
(* write_json *)

\* get_json_type
get_json_type(t) == IF t = "gff.Language" THEN JNull ELSE JStr(JsonTypeName(t))

\* get_json_language_id: str(k) of the language's id
get_json_language_id_name(name) == name
get_json_language_id(name) == IntToStr(MkInt(LanguageId(name)))

\* the value of a field that is no node
JsonLeaf(f) == IF InternalValueType(f.type) = "str" THEN JStr(f.sval) ELSE JInt(f.ival)

RECURSIVE get_json_cexolocstring(_)
get_json_cexolocstring(kids) ==
    IF kids = <<>> THEN <<>>
    ELSE LET k == kids[Len(kids)]
             d == get_json_cexolocstring(SubSeq(kids, 1, Len(kids) - 1))
         IN  IF k.type = "gff.Dword" /\ k.name = STRREF_NAME /\ k.ival # GFF_UINT32_SENTINEL
             THEN jupdate(d, <<Member(K_id, JInt(k.ival))>>)
             ELSE IF k.type = "gff.Language"
             THEN jupdate(d, <<Member(get_json_language_id(k.name), JStr(k.sval))>>)
             ELSE d

RECURSIVE get_json_dict(_)
get_json_dict(items) ==
    IF items = <<>> THEN <<>>
    ELSE LET k == items[Len(items)]
             json_dict == get_json_dict(SubSeq(items, 1, Len(items) - 1))
             typed == <<Member(K_type, get_json_type(k.type))>>
             struct_id_field == <<Member(K_struct_id, JInt(k.id))>>
             json_field ==
                 IF k.type = "gff.MagicTag" THEN <<Member(K_data_type, JStr(k.sval))>>
                 ELSE IF k.type = "gff.Struct" /\ k.name \in {ROOT_NAME, <<>>} THEN
                     jupdate(IF k.name = <<>> THEN struct_id_field ELSE <<>>,
                             get_json_dict(k.kids))
                 ELSE IF k.type = "gff.Struct" THEN
                     <<Member(k.name, JObj(jupdate(jupdate(typed, struct_id_field),
                         <<Member(K_value,
                                  JObj(jupdate(struct_id_field, get_json_dict(k.kids))))>>)))>>
                 ELSE IF k.type = "gff.List" THEN
                     <<Member(k.name, JObj(jupdate(typed,
                         <<Member(K_value, JArr([i \in 1..Len(k.kids) |->
                                      JObj(get_json_dict(k.kids[i].kids))]))>>)))>>
                 ELSE IF k.type = "gff.CExoLocString" THEN
                     <<Member(k.name, JObj(jupdate(typed,
                         <<Member(K_value, JObj(get_json_cexolocstring(k.kids)))>>)))>>
                 ELSE IF k.type = "gff.Base64String" THEN
                     <<Member(k.name, JObj(jupdate(typed, <<Member(K_value64, JsonLeaf(k))>>)))>>
                 ELSE <<Member(k.name, JObj(jupdate(typed, <<Member(K_value, JsonLeaf(k))>>)))>>
         IN  jupdate(json_dict, json_field)

RECURSIVE WriteJsonRaises(_)
\* get_json_language_id raises ValueError on a name that is no language
WriteJsonRaises(items) ==
    \E i \in 1..Len(items) :
        LET k == items[i]
        IN  \/ k.type = "gff.CExoLocString"
               /\ \E j \in 1..Len(k.kids) :
                      k.kids[j].type = "gff.Language" /\ ~IsLanguageName(k.kids[j].name)
            \/ k.type = "gff.Struct" /\ WriteJsonRaises(k.kids)
            \/ k.type = "gff.List"
               /\ \E j \in 1..Len(k.kids) : WriteJsonRaises(k.kids[j].kids)

\* the entry point of write_json on a truthy dict: [outcome, file]
write_json(items, old) ==
    IF WriteJsonRaises(items) THEN [outcome |-> "raised", file |-> old]
    ELSE [outcome |-> "ok", file |-> JsonFile(JObj(get_json_dict(items)))]

-----------------------------------------------------------------------------
(* load_json.  A step that can raise returns [err, val]: err is "" where   *)
(* it did not, "ValueError" for what load_json catches, "raised" for any   *)
(* other exception.                                                        *)

Ok(v) == [err |-> "", val |-> v]
Fail(e) == [err |-> e, val |-> <<>>]

J_struct == <<"s","t","r","u","c","t">>
J_list == <<"l","i","s","t">>
J_void == <<"v","o","i","d">>

\* a step made on the value of a step that did not raise
Bind(r, F(_)) == IF r.err # "" THEN r ELSE F(r.val)

RECURSIVE get_normalized_json_struct(_)
RECURSIVE NormalizedList(_)
RECURSIVE NormalizedMembers(_)

\* the elements of a list node, each wrapped in a struct header
NormalizedList(elems) ==
    IF elems = <<>> THEN Ok(<<>>)
    ELSE IF elems[1].v.jt # "obj" THEN Fail("ValueError")
    ELSE IF JGet(elems[1].v, K_struct_id).jt = "null" THEN Fail("ValueError")
    ELSE Bind(get_normalized_json_struct(JObj(
                  <<Member(K_type, JStr(J_struct)),
                    Member(K_struct_id, JGet(elems[1].v, K_struct_id)),
                    Member(K_value, JDel(elems[1].v, K_struct_id))>>)),
              LAMBDA h : Bind(NormalizedList(Tail(elems)),
                              LAMBDA t : Ok(<<JObj(<<Member(<<>>, h)>>)>> \o t)))

\* the members of a struct node's value
NormalizedMembers(mem) ==
    IF mem = <<>> THEN Ok(<<>>)
    ELSE Bind(get_normalized_json_struct(mem[1].v),
              LAMBDA h : Bind(NormalizedMembers(Tail(mem)),
                              LAMBDA t : Ok(<<Member(mem[1].k, h)>> \o t)))

\* get_normalized_json_struct(arg_node), is_root being False
get_normalized_json_struct(n) ==
    IF n.jt # "obj" THEN Fail("raised")
    ELSE LET node_type == JGet(n, K_type)
             is(t) == node_type.jt = "str" /\ node_type.sval = t
             node_value == IF is(J_void) THEN JGet(n, K_value64) ELSE JGet(n, K_value)
         IN  IF ~JTruthy(node_type) THEN Fail("ValueError")
             ELSE IF node_value.jt = "null" THEN Fail("ValueError")
             ELSE IF is(J_list) /\ node_value.jt # "arr" THEN Fail("ValueError")
             ELSE IF is(J_struct) /\ node_value.jt # "obj" THEN Fail("ValueError")
             ELSE IF is(J_list) THEN
                 Bind(NormalizedList(node_value.mem), LAMBDA r : Ok(JSet(n, K_value, JArr(r))))
             ELSE IF is(J_struct) THEN
                 Bind(NormalizedMembers(JDel(node_value, K_struct_id).mem),
                      LAMBDA r : Ok(JSet(n, K_value, JObj(r))))
             ELSE Ok(n)

\* get_normalized_json_struct(raw_dict, is_root=True)
get_normalized_json_root(raw) ==
    IF raw.jt # "obj" THEN Fail("raised")
    ELSE IF JGet(raw, K_data_type).jt = "null" THEN Fail("ValueError")
    ELSE Bind(get_normalized_json_struct(JObj(
                  <<Member(K_type, JStr(J_struct)),
                    Member(K_struct_id, JInt(GFF_UINT32_SENTINEL)),
                    Member(K_value, JDel(raw, K_data_type))>>)),
              LAMBDA r : Ok(<<Member(TYPE_NAME,
                                     JObj(<<Member(K_type, JStr(K_data_type)),
                                            Member(K_value, JGet(raw, K_data_type))>>)),
                              Member(ROOT_NAME, r)>>))

\* get_dsl_type of load_json
IsJsonTypeName(v) ==
    v.jt = "str" /\ v.sval # <<>>
    /\ \E i \in 1..Len(FIELD_TYPES) : JsonTypeName(FIELD_TYPES[i]) = v.sval
json_get_dsl_type(v) ==
    FIELD_TYPES[CHOOSE i \in 1..Len(FIELD_TYPES) : JsonTypeName(FIELD_TYPES[i]) = v.sval]

\* get_unprettified_sentinel of load_json
json_get_unprettified_sentinel(v) ==
    IF v.jt = "int" /\ v.ival = PRETTY_SENTINEL THEN JInt(GFF_UINT32_SENTINEL) ELSE v

\* the normalisation get_ndugff_value of load_json gives the escaped-string
\* types: it replaces the four characters \r\n by the two characters \n
json_normalize(str) == RStrip(Replace(str, <<BSL, "r", BSL, "n">>, <<BSL, "n">>))

\* the value converter of get_ndugff_value: str or int, applied to u
json_convert(key, u) ==
    IF InternalValueType(key.type) = "str"
    THEN IF u.jt = "str" THEN Ok([key EXCEPT !.sval = u.sval]) ELSE Fail("raised")
    ELSE IF u.jt \in {"int", "bool"} THEN Ok([key EXCEPT !.ival = u.ival])
    ELSE IF u.jt = "str" /\ IsIntText(u.sval) THEN Ok([key EXCEPT !.ival = StrToInt(u.sval)])
    ELSE Fail("ValueError")

\* get_ndugff_value of load_json, put on its key
json_get_ndugff_value(key, v) ==
    IF key.type \in LITERAL_STRING_TYPES /\ v.jt = "str" /\ Contains(v.sval, BSL)
    THEN Fail("ValueError")
    ELSE IF key.type \in ESCAPED_STRING_TYPES
    THEN IF v.jt # "str" THEN Fail("raised")
         ELSE Ok([key EXCEPT !.sval = json_normalize(v.sval)])
    ELSE json_convert(key, IF key.type = "gff.Dword" THEN json_get_unprettified_sentinel(v)
                           ELSE v)

Key(t, n) == Node(t, n, FALSE, Zero, Zero, <<>>, <<>>)

\* get_ndugff_key of load_json; the id of a struct is read as a gff.Dword
json_get_ndugff_key(dsl_type, name, json_field, value) ==
    IF dsl_type = "gff.Struct"
    THEN Bind(json_get_ndugff_value(Key("gff.Dword", <<>>),
                  JGetOr(json_field, K_struct_id, JInt(GFF_UINT32_SENTINEL))),
              LAMBDA id : Ok([value EXCEPT !.name = name, !.hasId = TRUE, !.id = id.ival]))
    ELSE Ok([value EXCEPT !.name = name])

\* get_ndugff_language_name of load_json: the name of the language, or it raises
IsJsonLanguageId(k) ==
    IsIntText(k) /\ ~StrToInt(k).neg /\ StrToInt(k).hi = 0 /\ IsLanguageId(StrToInt(k).lo)

RECURSIVE json_get_ndugff_cexolocstring(_)
\* the language entries of get_ndugff_cexolocstring, "id" being popped
json_get_ndugff_cexolocstring(mem) ==
    IF mem = <<>> THEN Ok(<<>>)
    ELSE IF ~IsJsonLanguageId(mem[1].k) THEN Fail("ValueError")
    ELSE Bind(json_get_ndugff_value(
                  Key("gff.Language", LanguageName(StrToInt(mem[1].k).lo)), mem[1].v),
              LAMBDA h : Bind(json_get_ndugff_cexolocstring(Tail(mem)),
                              LAMBDA t : Ok(<<h>> \o t)))

RECURSIVE json_get_ndugff_dict(_)
RECURSIVE json_get_ndugff_list(_)
RECURSIVE json_get_ndugff_node(_, _)

\* [get_ndugff_dict(c) for c in json_value]
json_get_ndugff_list(elems) ==
    IF elems = <<>> THEN Ok(<<>>)
    ELSE Bind(json_get_ndugff_dict(elems[1].v.mem),
              LAMBDA h : Bind(json_get_ndugff_list(Tail(elems)),
                              LAMBDA t : Ok(<<DictElem(h)>> \o t)))

\* the value get_ndugff_dict gives a field of the type, put on a nameless key
json_get_ndugff_node(dsl_type, json_value) ==
    IF dsl_type = "gff.Struct" THEN
        Bind(json_get_ndugff_dict(json_value.mem),
             LAMBDA r : Ok([Key(dsl_type, <<>>) EXCEPT !.kids = r]))
    ELSE IF dsl_type = "gff.CExoLocString" THEN
        Bind(json_get_ndugff_value(Key("gff.Dword", STRREF_NAME),
                 JGetOr(json_value, K_id, JInt(GFF_UINT32_SENTINEL))),
             LAMBDA strref :
                 Bind(json_get_ndugff_cexolocstring(JDel(json_value, K_id).mem),
                      LAMBDA r : Ok([Key(dsl_type, <<>>) EXCEPT !.kids = <<strref>> \o r])))
    ELSE IF dsl_type = "gff.List" THEN
        Bind(json_get_ndugff_list(json_value.mem),
             LAMBDA r : Ok([Key(dsl_type, <<>>) EXCEPT !.kids = r]))
    ELSE json_get_ndugff_value(Key(dsl_type, <<>>), json_value)

\* the value of the field get_ndugff_dict reads: value64 for a void
JsonFieldValue(json_field) ==
    IF json_get_dsl_type(JGet(json_field, K_type)) = "gff.Base64String"
    THEN JGet(json_field, K_value64) ELSE JGet(json_field, K_value)

\* validate_types
validate_types_always(dsl_type, json_value) == TRUE
validate_types(dsl_type, json_value) == PyType(json_value) = InternalValueType(dsl_type)

\* get_ndugff_dict of load_json, on the members of a normalized dict
json_get_ndugff_dict(mem) ==
    IF mem = <<>> THEN Ok(<<>>)
    ELSE IF ~IsJsonTypeName(JGet(mem[1].v, K_type)) THEN Fail("ValueError")
    ELSE IF ~validate_types(json_get_dsl_type(JGet(mem[1].v, K_type)), JsonFieldValue(mem[1].v))
    THEN Fail("ValueError")
    ELSE Bind(json_get_ndugff_node(json_get_dsl_type(JGet(mem[1].v, K_type)),
                                   JsonFieldValue(mem[1].v)),
              LAMBDA value :
                  Bind(json_get_ndugff_key(json_get_dsl_type(JGet(mem[1].v, K_type)),
                                           mem[1].k, mem[1].v, value),
                       LAMBDA field : Bind(json_get_ndugff_dict(Tail(mem)),
                                           LAMBDA t : Ok(<<field>> \o t))))

\* the entry point of load_json on an existing file: [outcome, dict]
load_json(f) ==
    LET r == IF f.malformed THEN Fail("ValueError")
             ELSE Bind(get_normalized_json_root(f.value), LAMBDA d : json_get_ndugff_dict(d))
    IN  IF r.err # "" THEN [outcome |-> r.err, dict |-> NoneDict]
        ELSE [outcome |-> "ok", dict |-> SomeDict(reorder(r.val))]

-----------------------------------------------------------------------------
(* The NDUGFF text: a sequence of lines.  A line is held as the parts the  *)
(* writer joins and _DSL_TOKENIZER separates again: its type, its name,    *)
(* the text inside .id( ), the text behind the colon.  A line that is no   *)
(* field is blank, a comment, end(), or text the tokenizer does not match. *)

Line(kind, type, name, hasSid, sid, hasVal, val) ==
    [kind |-> kind, type |-> type, name |-> name, hasSid |-> hasSid, sid |-> sid,
     hasVal |-> hasVal, val |-> val]
FieldLine(type, name, val) == Line("field", type, name, FALSE, <<>>, TRUE, val)
NodeLine(type, name) == Line("field", type, name, FALSE, <<>>, FALSE, <<>>)
StructLine(name, sid) == Line("field", "gff.Struct", name, TRUE, sid, FALSE, <<>>)
EndLine == Line("end", "", <<>>, FALSE, <<>>, FALSE, <<>>)
BlankLine == Line("blank", "", <<>>, FALSE, <<>>, FALSE, <<>>)
CommentLine == Line("comment", "", <<>>, FALSE, <<>>, FALSE, <<>>)
GarbageLine == Line("garbage", "", <<>>, FALSE, <<>>, FALSE, <<>>)

NoDsl == [exists |-> FALSE, partial |-> FALSE, lines |-> <<>>]
DslFile(lines) == [exists |-> TRUE, partial |-> FALSE, lines |-> lines]

-----------------------------------------------------------------------------
(* write_ndugff *)

\* get_escaped_string
get_escaped_string(str) ==
    Replace(Replace(Replace(Replace(str, <<QUOTE>>, <<BSL, QUOTE>>),
                            <<TAB>>, <<BSL, "t">>),
                    <<CR, LF>>, <<BSL, "n">>),
            <<LF>>, <<BSL, "n">>)

get_pretty_sentinel_never(v) == v
\* get_pretty_sentinel
get_pretty_sentinel(v) == IF v = GFF_UINT32_SENTINEL THEN PRETTY_SENTINEL ELSE v

\* the text an f-string gives the value of a field that is no node
ValueText(f) == IF InternalValueType(f.type) = "int" THEN IntToStr(f.ival) ELSE f.sval

\* get_formatted_value, without the colon and the blank before the value
get_formatted_value(f) ==
    LET v == IF f.type \in ESCAPED_STRING_TYPES THEN get_escaped_string(f.sval)
             ELSE IF f.type = "gff.Dword" THEN IntToStr(get_pretty_sentinel(f.ival))
             ELSE ValueText(f)
    IN  IF f.type \in ESCAPED_STRING_TYPES \cup LITERAL_STRING_TYPES
        THEN <<QUOTE>> \o v \o <<QUOTE>>
        ELSE v

\* dump_field_line: get_formatted_key, and the value of a field that is no node
dump_field_line(f) ==
    Line("field", f.type, f.name,
         f.type = "gff.Struct",
         IF f.type = "gff.Struct" THEN IntToStr(get_pretty_sentinel(f.id)) ELSE <<>>,
         f.type \notin NODE_TYPES,
         IF f.type \notin NODE_TYPES THEN get_formatted_value(f) ELSE <<>>)

RECURSIVE dump_dict_lines(_)
RECURSIVE dump_list_lines(_)

dump_list_lines(elems) ==
    IF elems = <<>> THEN <<>>
    ELSE dump_dict_lines(elems[1].kids) \o dump_list_lines(Tail(elems))

\* dump_dict_lines closing a node only where its value is not empty
dump_dict_lines_unclosed(items) ==
    IF items = <<>> THEN <<>>
    ELSE LET f == items[1]
             own == IF InternalValueType(f.type) = "dict" /\ f.kids # <<>>
                    THEN <<dump_field_line(f)>> \o dump_dict_lines(f.kids) \o <<EndLine>>
                    ELSE IF InternalValueType(f.type) = "list" /\ f.kids # <<>>
                    THEN <<dump_field_line(f)>> \o dump_list_lines(f.kids) \o <<EndLine>>
                    ELSE <<dump_field_line(f)>>
         IN  own \o dump_dict_lines(Tail(items))

dump_dict_lines(items) ==
    IF items = <<>> THEN <<>>
    ELSE LET f == items[1]
             own == IF InternalValueType(f.type) = "dict"
                    THEN <<dump_field_line(f)>> \o dump_dict_lines(f.kids) \o <<EndLine>>
                    ELSE IF InternalValueType(f.type) = "list"
                    THEN <<dump_field_line(f)>> \o dump_list_lines(f.kids) \o <<EndLine>>
                    ELSE <<dump_field_line(f)>>
         IN  own \o dump_dict_lines(Tail(items))

\* the entry point of write_ndugff on a truthy dict: [outcome, file]
write_ndugff(items, old) == [outcome |-> "ok", file |-> DslFile(dump_dict_lines(items))]

-----------------------------------------------------------------------------
(* load_ndugff *)

RECURSIVE SplitLines(_)
\* str.splitlines as f.readlines() applies it: texts between \n, \r and \r\n
SplitLines(str) ==
    IF \A i \in 1..Len(str) : str[i] \notin {CR, LF} THEN <<str>>
    ELSE LET i == CHOOSE i \in 1..Len(str) :
                      str[i] \in {CR, LF} /\ \A j \in 1..(i - 1) : str[j] \notin {CR, LF}
             n == IF str[i] = CR /\ i < Len(str) /\ str[i + 1] = LF THEN i + 1 ELSE i
         IN  <<SubSeq(str, 1, i - 1)>> \o
             (IF n = Len(str) THEN <<>> ELSE SplitLines(Drop(str, n)))

\* what ln.strip() and the tokenizer make of a text that begins no field
Classify(piece) ==
    IF Strip(piece) = <<>> THEN BlankLine
    ELSE IF Strip(piece)[1] = "#" THEN CommentLine
    ELSE GarbageLine

RECURSIVE ReadLines(_)
\* f.readlines() and ln.strip(): a line end inside a value ends the line
ReadLines(lines) ==
    IF lines = <<>> THEN <<>>
    ELSE LET ln == lines[1]
             pieces == SplitLines(ln.val)
             first == IF RStrip(pieces[1]) = <<>>
                      THEN [ln EXCEPT !.hasVal = FALSE, !.val = <<>>]
                      ELSE [ln EXCEPT !.val = RStrip(pieces[1])]
         IN  (IF ln.kind = "field" /\ ln.hasVal
              THEN <<first>> \o [i \in 1..(Len(pieces) - 1) |-> Classify(pieces[i + 1])]
              ELSE <<ln>>)
             \o ReadLines(Tail(lines))

\* normalize_magic_tag: value[:4].ljust(4)
normalize_magic_tag_never(v) == v
normalize_magic_tag(v) ==
    LET cut == SubSeq(v, 1, IF Len(v) < 4 THEN Len(v) ELSE 4)
    IN  cut \o [i \in 1..(4 - Len(cut)) |-> SP]

\* unescape_escaped_string
unescape_escaped_string(v) ==
    RStrip(Replace(Replace(Replace(Replace(v, <<BSL, "r", BSL, "n">>, <<BSL, "n">>),
                                   <<BSL, QUOTE>>, <<QUOTE>>),
                           <<BSL, "t">>, <<TAB>>),
                   <<BSL, "n">>, <<LF>>))

\* unquote_quoted_string
unquote_quoted_string(v) == StripChar(v, QUOTE)

\* get_unprettified_sentinel of load_ndugff: on the text
dsl_get_unprettified_sentinel(v) ==
    IF v = IntToStr(PRETTY_SENTINEL) THEN IntToStr(GFF_UINT32_SENTINEL) ELSE v

\* build_dsl_line on a line that matches the tokenizer: [err, val], val being
\* the line with its struct_id and value as build_dsl_line leaves them
build_dsl_line_lenient(ln) ==
    IF ln.type \in NODE_TYPES THEN
        IF ln.type = "gff.Struct"
        THEN IF ~ln.hasSid THEN Ok([ln EXCEPT !.sid = <<"0">>])
             ELSE Ok([ln EXCEPT !.sid = dsl_get_unprettified_sentinel(ln.sid)])
        ELSE Ok(ln)
    ELSE IF ln.name = <<>> THEN Fail("ValueError")
    ELSE IF ~ln.hasVal THEN Ok(ln)
    ELSE LET unquoted == unquote_quoted_string(ln.val)
             unescaped == IF Contains(unquoted, BSL)
                          THEN unescape_escaped_string(unquoted) ELSE unquoted
         IN  IF Contains(unquoted, BSL) /\ ln.type \notin ESCAPED_STRING_TYPES
             THEN Fail("ValueError")
             ELSE IF ln.type = "gff.MagicTag"
             THEN Ok([ln EXCEPT !.val = normalize_magic_tag(unescaped)])
             ELSE IF ln.type = "gff.Dword"
             THEN Ok([ln EXCEPT !.val = dsl_get_unprettified_sentinel(unescaped)])
             ELSE Ok([ln EXCEPT !.val = unescaped])
build_dsl_line(ln) ==
    IF ln.type \in NODE_TYPES THEN
        IF ln.type = "gff.Struct"
        THEN IF ~ln.hasSid THEN Fail("ValueError")
             ELSE Ok([ln EXCEPT !.sid = dsl_get_unprettified_sentinel(ln.sid)])
        ELSE Ok(ln)
    ELSE IF ln.name = <<>> THEN Fail("ValueError")
    ELSE IF ~ln.hasVal THEN Fail("ValueError")
    ELSE LET unquoted == unquote_quoted_string(ln.val)
             unescaped == IF Contains(unquoted, BSL)
                          THEN unescape_escaped_string(unquoted) ELSE unquoted
         IN  IF Contains(unquoted, BSL) /\ ln.type \notin ESCAPED_STRING_TYPES
             THEN Fail("ValueError")
             ELSE IF ln.type = "gff.MagicTag"
             THEN Ok([ln EXCEPT !.val = normalize_magic_tag(unescaped)])
             ELSE IF ln.type = "gff.Dword"
             THEN Ok([ln EXCEPT !.val = dsl_get_unprettified_sentinel(unescaped)])
             ELSE Ok([ln EXCEPT !.val = unescaped])

\* build_ndugff_field: the key, and the value the constructor of the type
\* makes of the text (a float is kept as its text)
build_ndugff_field(ln) ==
    LET key == IF ln.type = "gff.Struct"
               THEN Node(ln.type, ln.name, TRUE, StrToInt(ln.sid), Zero, <<>>, <<>>)
               ELSE Key(ln.type, ln.name)
    IN  IF ln.type \in NODE_TYPES THEN Ok(key)
        ELSE IF InternalValueType(ln.type) = "int"
        THEN IF IsIntText(ln.val) THEN Ok([key EXCEPT !.ival = StrToInt(ln.val)])
             ELSE Fail("ValueError")
        ELSE Ok([key EXCEPT !.sval = ln.val])

\* the state of build_ndugff_dict between two lines: the stack of open nodes
\* (each with the value collected so far), dsl_line.skip, dsl_line.nth
ParserInit == [stack |-> <<DictElem(<<>>)>>, skip |-> FALSE, nth |-> 1, err |-> ""]

\* one turn of the loop of build_ndugff_dict
ParseLine(p, ln) ==
    LET n == Len(p.stack)
        top == p.stack[n]
        built == IF ln.kind = "field" THEN build_dsl_line(ln) ELSE Ok(ln)
        field == build_ndugff_field(built.val)
        reset == [p EXCEPT !.nth = p.nth + 1]
    IN  IF ln.kind \in {"blank", "comment"} THEN [p EXCEPT !.skip = TRUE]
        ELSE IF ln.kind = "garbage" THEN [p EXCEPT !.err = "ValueError"]
        ELSE IF built.err # "" THEN [p EXCEPT !.err = built.err]
        ELSE IF p.skip THEN p   \* continue: dsl_line.reset() is not reached
        ELSE IF ln.kind = "end" THEN
            IF n <= 1 THEN [p EXCEPT !.err = "ValueError"]
            ELSE LET parent == p.stack[n - 1]
                     attached == IF parent.type = "gff.List"
                                 THEN [parent EXCEPT !.kids = Append(@, DictElem(<<top>>))]
                                 ELSE [parent EXCEPT !.kids = Append(@, top)]
                 IN  [reset EXCEPT !.stack = Append(SubSeq(p.stack, 1, n - 2), attached)]
        ELSE IF field.err # "" THEN [p EXCEPT !.err = field.err]
        ELSE IF ln.type \in NODE_TYPES THEN [reset EXCEPT !.stack = Append(p.stack, field.val)]
        ELSE IF top.type = "gff.List" THEN [p EXCEPT !.err = "ValueError"]
        ELSE [reset EXCEPT !.stack[n] = [top EXCEPT !.kids = Append(@, field.val)]]

RECURSIVE ParseLines(_, _)
ParseLines(p, lines) ==
    IF lines = <<>> \/ p.err # "" THEN p
    ELSE ParseLines(ParseLine(p, lines[1]), Tail(lines))

\* build_ndugff_dict
build_ndugff_dict(lines) == ParseLines(ParserInit, ReadLines(lines))

\* the entry point of load_ndugff on an existing file: [outcome, dict, nth]
load_ndugff(f) ==
    LET p == build_ndugff_dict(f.lines)
    IN  IF p.err # "" THEN [outcome |-> p.err, dict |-> NoneDict, nth |-> p.nth]
        ELSE [outcome |-> "ok", dict |-> SomeDict(reorder(p.stack[1].kids)), nth |-> p.nth]

-----------------------------------------------------------------------------
(* The inputs: the files the instance may be given to read *)

MaxStrLen == 4
MaxEscLen == 2
MaxFields == 2
MaxTagLen == 5

RECURSIVE SeqsUpTo(_, _)
SeqsUpTo(S, n) ==
    IF n = 0 THEN {<<>>}
    ELSE LET shorter == SeqsUpTo(S, n - 1)
         IN  shorter \cup {Append(s, c) : s \in shorter, c \in S}

\* texts with line ends, and texts with the characters the text forms escape
PlainChars == {"a", CR, LF}
EscChars == {QUOTE, BSL, "n", TAB}
Strings == SeqsUpTo(PlainChars, MaxStrLen) \cup SeqsUpTo(EscChars, MaxEscLen)

Hello == <<"h","i">>
Sword == <<"s","w","o","r","d">>
GFF_TAG == <<"G","F","F",SP>>
MinusOne == <<"-","1">>
Quoted(str) == <<QUOTE>> \o str \o <<QUOTE>>

\* fields of a struct as gff.read returns them
GffFieldPool ==
    << GffList(<<"L">>, <<GffStruct(<<>>, MkInt(0), <<GffInt("gff.Byte", <<"z">>, MkInt(1))>>),
                          GffStruct(<<>>, GFF_UINT32_SENTINEL, <<>>)>>),
       GffInt("gff.Byte", <<"c">>, MkInt(2)),
       GffInt("gff.Byte", <<"A">>, MkInt(1)),
       GffInt("gff.Int", <<"I">>, MkInt(-1)),
       GffInt("gff.Dword", <<"D">>, GFF_UINT32_SENTINEL),
       GffInt("gff.Dword64", <<"Q">>, GFF_UINT32_SENTINEL),
       GffStr("gff.CExoString", <<"b">>, Hello),
       GffStr("gff.ResRef", <<"R">>, Sword),
       GffVoid(<<"V">>, <<0, 1, 254, 255>>),
       GffLoc(<<"N">>, GFF_UINT32_SENTINEL, <<GffEntry(2, Hello), GffEntry(0, <<"a">>)>>),
       GffLoc(<<"M">>, MkInt(17), <<>>),
       GffStruct(<<"S">>, MkInt(3), <<GffStr("gff.ResRef", <<"t">>, Sword),
                                      GffInt("gff.Byte", <<"z">>, MkInt(1))>>) >>

\* the fields the roots of several fields are made of
SmallPool == {GffFieldPool[i] : i \in {2, 3, 4, 5, 12}}

\* gff.Struct is a dict: its labels are distinct
DistinctNames(fs) == \A i, j \in 1..Len(fs) : i # j => fs[i].name # fs[j].name

GffRoots ==
    {fs \in SeqsUpTo(SmallPool, MaxFields) : DistinctNames(fs)}
    \cup {<<GffFieldPool[i]>> : i \in 1..Len(GffFieldPool)}
    \cup {GffFieldPool}
    \cup {<<GffStr("gff.CExoString", <<"B">>, s)>> : s \in Strings}

GffInputs ==
    {GffFile(GFF_TAG, GffStruct(<<>>, GFF_UINT32_SENTINEL, fs)) : fs \in GffRoots}
    \cup {GffFile(GFF_TAG, GffStruct(<<>>, MkInt(7), <<GffInt("gff.Byte", <<"A">>, MkInt(1))>>)),
          GffFile(GFF_TAG, GffStruct(<<>>, GFF_UINT32_SENTINEL,
              <<GffLoc(<<"N">>, GFF_UINT32_SENTINEL, <<GffEntry(99, Hello)>>)>>))}

\* JSON documents, the root object being given by its members
JField(name, type, key, v) ==
    Member(name, JObj(<<Member(K_type, JStr(JsonTypeName(type))), Member(key, v)>>))
JByteZ == JField(<<"z">>, "gff.Byte", K_value, JInt(MkInt(1)))
JDoc(tag, mem) == JsonFile(JObj(<<Member(K_data_type, JStr(tag))>> \o mem))
JList(name, elems) == JField(name, "gff.List", K_value, JArr(elems))

JsonInputs ==
    { MalformedJson,
      JsonFile(JArr(<<>>)),
      JDoc(GFF_TAG, <<JField(<<"A">>, "gff.Byte", K_value, JInt(MkInt(1)))>>),
      JDoc(GFF_TAG, <<JField(<<"R">>, "gff.ResRef", K_value, JStr(<<"s", BSL, "w">>))>>),
      JDoc(GFF_TAG, <<JField(<<"R">>, "gff.ResRef", K_value, JStr(Sword))>>),
      JDoc(GFF_TAG, <<JField(<<"R">>, "gff.ResRef", K_value, JInt(MkInt(5)))>>),
      JDoc(<<"G", BSL, "F", SP>>, <<JByteZ>>),
      JDoc(GFF_TAG, <<JField(<<"V">>, "gff.Base64String", K_value64,
                             JStr(<<"A", "A", BSL, "=">>))>>),
      JDoc(GFF_TAG, <<JField(<<"V">>, "gff.Base64String", K_value64,
                             JStr(<<"A", "A", "=", "=">>))>>),
      JDoc(GFF_TAG, <<JField(<<"D">>, "gff.Dword", K_value, JInt(MkInt(-1))),
                      JField(<<"I">>, "gff.Int", K_value, JInt(MkInt(-1))),
                      JField(<<"Q">>, "gff.Dword64", K_value, JInt(MkInt(-1)))>>),
      JDoc(GFF_TAG, <<JList(<<"L">>, <<JObj(<<Member(K_struct_id, JInt(MkInt(-1))), JByteZ>>)>>)>>),
      JDoc(GFF_TAG, <<JList(<<"L">>, <<JObj(<<JByteZ>>)>>)>>),
      JDoc(GFF_TAG, <<JList(<<"L">>, <<JInt(MkInt(1))>>)>>),
      JDoc(GFF_TAG, <<JList(<<"L">>, <<JObj(<<Member(K_struct_id, JInt(MkInt(2))),
                                             JList(<<"M">>, <<>>)>>)>>)>>),
      JDoc(GFF_TAG, <<JField(<<"N">>, "gff.CExoLocString", K_value,
                             JObj(<<Member(K_id, JInt(MkInt(17))),
                                    Member(<<"0">>, JStr(Hello))>>))>>),
      JDoc(GFF_TAG, <<JField(<<"N">>, "gff.CExoLocString", K_value,
                             JObj(<<Member(<<"9", "9">>, JStr(Hello))>>))>>),
      JDoc(GFF_TAG, <<JField(<<"N">>, "gff.CExoLocString", K_value,
                             JObj(<<Member(<<"2">>, JStr(Hello)),
                                    Member(<<"1", "1">>, JStr(<<"a">>))>>)),
                      JField(<<"M">>, "gff.CExoLocString", K_value,
                             JObj(<<Member(K_id, JInt(MkInt(-1)))>>))>>),
      JDoc(GFF_TAG, <<JField(<<"B">>, "gff.CExoString", K_value,
                             JStr(<<"a", BSL, "r", BSL, "n", SP>>))>>),
      JDoc(GFF_TAG, <<JField(<<"L">>, "gff.List", K_value, JInt(MkInt(1)))>>),
      JDoc(GFF_TAG, <<JField(<<"L">>, "gff.List", K_value, JObj(<<JByteZ>>))>>),
      JDoc(GFF_TAG, <<JField(<<"S">>, "gff.Struct", K_value, JArr(<<>>))>>),
      JDoc(GFF_TAG, <<JField(<<"S">>, "gff.Struct", K_value, JStr(Hello))>>),
      JDoc(GFF_TAG, <<JField(<<"N">>, "gff.CExoLocString", K_value, JStr(Hello))>>),
      JDoc(GFF_TAG, <<JField(<<"A">>, "gff.Byte", K_value, JStr(<<"1">>))>>),
      JDoc(GFF_TAG, <<JField(<<"A">>, "gff.Byte", K_value, JV("bool", MkInt(1), <<>>, <<>>))>>),
      JDoc(GFF_TAG, <<JField(<<"A">>, "gff.Byte", K_value, JV("bool", Zero, <<>>, <<>>))>>),
      JDoc(GFF_TAG, <<JField(<<"Q">>, "gff.Dword64", K_value, JStr(Hello))>>),
      JDoc(GFF_TAG, <<JField(<<"B">>, "gff.CExoString", K_value, JInt(MkInt(5)))>>),
      JDoc(GFF_TAG, <<JField(<<"V">>, "gff.Base64String", K_value64, JInt(Zero))>>),
      JDoc(GFF_TAG, <<JField(<<"S">>, "gff.Struct", K_value,
                             JObj(<<JByteZ, JField(<<"A">>, "gff.Int", K_value,
                                                   JStr(<<"7">>))>>))>>),
      JDoc(GFF_TAG, <<JList(<<"L">>, <<JObj(<<Member(K_struct_id, JInt(MkInt(2))),
                                             JField(<<"R">>, "gff.ResRef", K_value,
                                                    JInt(MkInt(3)))>>)>>)>>) }

\* NDUGFF texts
TypeLine == FieldLine("gff.MagicTag", TYPE_NAME, Quoted(GFF_TAG))
ByteLine(name, val) == FieldLine("gff.Byte", name, val)
DslDoc(sid, body) == <<TypeLine, StructLine(ROOT_NAME, sid)>> \o body \o <<EndLine>>
InList(body) == <<NodeLine("gff.List", <<"L">>)>> \o body \o <<EndLine>>
ElemLines(sid, body) == <<StructLine(<<>>, sid)>> \o body \o <<EndLine>>

DslBase == DslDoc(MinusOne, <<ByteLine(<<"A">>, <<"1">>)>>
                            \o InList(ElemLines(<<"0">>, <<ByteLine(<<"z">>, <<"1">>)>>)))

InsertAt(t, i, ln) == SubSeq(t, 1, i) \o <<ln>> \o SubSeq(t, i + 1, Len(t))
RemoveAt(t, i) == SubSeq(t, 1, i - 1) \o SubSeq(t, i + 1, Len(t))

\* the bodies of the root struct of the texts written by hand
DslBodies ==
    { <<FieldLine("gff.Dword", <<"D">>, MinusOne),
        FieldLine("gff.Dword", <<"E">>, IntToStr(GFF_UINT32_SENTINEL)),
        FieldLine("gff.Int", <<"I">>, MinusOne),
        FieldLine("gff.Dword64", <<"P">>, MinusOne),
        FieldLine("gff.Dword64", <<"Q">>, IntToStr(GFF_UINT32_SENTINEL)),
        StructLine(<<"S">>, MinusOne), EndLine,
        StructLine(<<"T">>, IntToStr(GFF_UINT32_SENTINEL)), EndLine>>,
      <<FieldLine("gff.ResRef", <<"R">>, Quoted(Sword))>>,
      <<FieldLine("gff.ResRef", <<"R">>, Quoted(<<"s", BSL, "w">>))>>,
      <<FieldLine("gff.Base64String", <<"V">>, Quoted(<<"A", "A", "=", "=">>))>>,
      <<FieldLine("gff.Base64String", <<"V">>, Quoted(<<"A", "A", BSL, "=">>))>>,
      <<FieldLine("gff.MagicTag", <<"X">>, Quoted(<<"a", BSL>>))>>,
      <<FieldLine("gff.Byte", <<"A">>, <<"1", BSL>>)>>,
      <<FieldLine("gff.CExoString", <<"B">>, Quoted(<<"a", SP>>))>>,
      <<FieldLine("gff.CExoString", <<"B">>, Quoted(<<"a", BSL, "n">>))>>,
      <<FieldLine("gff.CExoString", <<"B">>, Quoted(<<"a", BSL, QUOTE, "b">>))>>,
      <<ByteLine(<<"A">>, <<"1">>), ByteLine(<<"A">>, <<"2">>)>>,
      <<ByteLine(<<"A">>, <<"x">>)>>,
      <<ByteLine(<<>>, <<"1">>)>>,
      <<NodeLine("gff.Byte", <<"A">>)>>,
      <<NodeLine("gff.CExoString", <<"B">>)>>,
      <<ByteLine(<<"A">>, <<"1">>), NodeLine("gff.ResRef", <<"R">>)>>,
      <<CommentLine, NodeLine("gff.CExoString", <<"B">>)>>,
      <<CommentLine, NodeLine("gff.Struct", <<"S">>), EndLine>>,
      InList(<<NodeLine("gff.Struct", <<>>), EndLine>>),
      <<NodeLine("gff.Struct", <<"S">>), EndLine>>,
      <<GarbageLine>>,
      InList(<<NodeLine("gff.List", <<"M">>), EndLine>>),
      InList(<<NodeLine("gff.CExoLocString", <<"N">>), EndLine>>),
      InList(<<StructLine(<<"X">>, <<"1">>), EndLine>>),
      InList(<<ByteLine(<<"z">>, <<"1">>)>>),
      InList(ElemLines(MinusOne, <<>>)),
      <<NodeLine("gff.CExoLocString", <<"N">>),
        FieldLine("gff.Dword", STRREF_NAME, <<"1", "7">>),
        FieldLine("gff.Language", LanguageName(0), Quoted(Hello)), EndLine>>,
      <<NodeLine("gff.CExoLocString", <<"N">>),
        FieldLine("gff.Language", <<"K">>, Quoted(Hello)), EndLine>>,
      <<NodeLine("gff.List", <<"E">>), EndLine,
        NodeLine("gff.CExoLocString", <<"N">>), EndLine,
        StructLine(<<"S">>, <<"1">>), EndLine>> }

\* the file types given by the texts: of every length up to the bound
MagicTags == SeqsUpTo({"U", SP}, MaxTagLen)

DslInputs ==
    {DslFile(DslDoc(MinusOne, body)) : body \in DslBodies}
    \cup {DslFile(DslDoc(<<"5">>, <<ByteLine(<<"A">>, <<"1">>)>>)),
          DslFile(<<FieldLine("gff.MagicTag", TYPE_NAME, Quoted(<<"G", BSL, "F">>))>>
                  \o Tail(DslBase)),
          DslFile(DslBase)}
    \cup {DslFile(InsertAt(DslBase, i, ln)) :
             i \in 0..Len(DslBase), ln \in {CommentLine, BlankLine, EndLine}}
    \cup {DslFile(RemoveAt(DslBase, i)) : i \in 1..Len(DslBase)}
    \cup {DslFile(<<FieldLine("gff.MagicTag", TYPE_NAME, Quoted(tag)),
                    StructLine(ROOT_NAME, MinusOne), EndLine>>) : tag \in MagicTags}
    \cup {DslFile(<<FieldLine("gff.MagicTag", TYPE_NAME, <<"U", "T", "C">>),
                    StructLine(ROOT_NAME, MinusOne),
                    FieldLine("gff.MagicTag", <<"X">>, Quoted(<<"U", "T", "C", "X", "Y">>)),
                    EndLine>>)}

-----------------------------------------------------------------------------
(* The path tests of _Paths and the archive type of _Erf._Single *)

\* FILE_EXTENSIONS, each entry as the set of its suffixes
FILE_EXTENSIONS(type) ==
    CASE type = "ndugff" -> {<<".", "n", "d", "u", "g", "f", "f">>}
      [] type = "json" -> {<<".", "j", "s", "o", "n">>}
      [] type = "gff" ->
            {<<".", "a", "r", "e">>, <<".", "g", "i", "t">>, <<".", "g", "i", "c">>,
             <<".", "b", "i", "c">>, <<".", "d", "l", "g">>, <<".", "g", "f", "f">>,
             <<".", "g", "u", "i">>, <<".", "i", "f", "o">>, <<".", "f", "a", "c">>,
             <<".", "j", "r", "l">>, <<".", "i", "t", "p">>, <<".", "u", "t", "c">>,
             <<".", "u", "t", "d">>, <<".", "u", "t", "e">>, <<".", "u", "t", "i">>,
             <<".", "u", "t", "m">>, <<".", "u", "t", "p">>, <<".", "u", "t", "s">>,
             <<".", "u", "t", "t">>, <<".", "u", "t", "w">>}
      [] type = "erf" -> {<<".", "e", "r", "f">>, <<".", "h", "a", "k">>, <<".", "m", "o", "d">>,
<<".", "n", "w", "m">>}
      [] OTHER -> {}

\* a path, as what the tests read of it: Path(arg_path).suffixes and what is
\* found on the disk under it ("file", "dir", "none", or "error" where
\* is_file() and is_dir() raise OSError)
PathOf(is_path, suffixes, found) ==
    [is_path |-> is_path, suffixes |-> suffixes, found |-> found]

\* _is_file_of_type; arg_base_type is "" where it is not given
is_file_of_type(arg_path, arg_skip_exist, arg_target_type, arg_base_type, arg_is_folder) ==
    LET suffixes == arg_path.suffixes
        n == Len(suffixes)
        target_suffix == Lower(suffixes[n])
        base_suffix == Lower(suffixes[1])
    IN  IF ~arg_path.is_path THEN FALSE
        ELSE IF n \notin {1, 2} THEN FALSE
        ELSE IF target_suffix \notin FILE_EXTENSIONS(arg_target_type) THEN FALSE
        ELSE IF arg_base_type # "" /\ n = 2
                /\ base_suffix \notin FILE_EXTENSIONS(arg_base_type) THEN FALSE
        ELSE IF arg_skip_exist THEN TRUE
        ELSE IF arg_path.found = "error" THEN FALSE
        ELSE IF arg_is_folder THEN arg_path.found = "dir"
        ELSE arg_path.found = "file"

is_gff_file(arg_path, arg_skip_exist) ==
    is_file_of_type(arg_path, arg_skip_exist, "gff", "", FALSE)
is_ndugff_file(arg_path, arg_skip_exist) ==
    is_file_of_type(arg_path, arg_skip_exist, "ndugff", "gff", FALSE)
is_json_file(arg_path, arg_skip_exist) ==
    is_file_of_type(arg_path, arg_skip_exist, "json", "gff", FALSE)
is_erf_file(arg_path, arg_skip_exist) ==
    is_file_of_type(arg_path, arg_skip_exist, "erf", "", FALSE)
is_erf_folder(arg_path, arg_skip_exist) ==
    is_file_of_type(arg_path, arg_skip_exist, "erf", "", TRUE)

\* _ERF_TYPES: the extensions it knows, and the type of each
ERF_EXTENSIONS == {<<".", "e", "r", "f">>, <<".", "m", "o", "d">>, <<".", "h", "a", "k">>,
<<".", "n", "v", "m">>}
ERF_TYPES(ext) ==
    CASE ext = <<".", "e", "r", "f">> -> <<"E", "R", "F", " ">>
      [] ext = <<".", "m", "o", "d">> -> <<"M", "O", "D", " ">>
      [] ext = <<".", "h", "a", "k">> -> <<"H", "A", "K", " ">>
      [] ext = <<".", "n", "v", "m">> -> <<"N", "V", "M", " ">>

\* _get_erf_type_by_extension without arg_ext.lower()
get_erf_type_by_extension_cased(arg_ext) ==
    IF arg_ext \in ERF_EXTENSIONS
    THEN [erf_type |-> ERF_TYPES(arg_ext), printed |-> FALSE]
    ELSE [erf_type |-> <<"E", "R", "F">>, printed |-> TRUE]

\* _get_erf_type_by_extension: the type handed to erf.Writer, and whether the
\* message was printed
get_erf_type_by_extension(arg_ext) ==
    IF Lower(arg_ext) \in ERF_EXTENSIONS
    THEN [erf_type |-> ERF_TYPES(Lower(arg_ext)), printed |-> FALSE]
    ELSE [erf_type |-> <<"E", "R", "F">>, printed |-> TRUE]

\* the paths and the extensions the calls are made on
MaxSuffixes == 3
Suffixes == {<<".", "u", "t", "c">>, <<".", "U", "T", "C">>, <<".", "j", "s", "o", "n">>,
             <<".", "n", "d", "u", "g", "f", "f">>, <<".", "t", "x", "t">>,
             <<".", "n", "w", "m">>, <<".", "n", "v", "m">>}
Paths ==
    {PathOf(TRUE, sfx, found) : sfx \in SeqsUpTo(Suffixes, MaxSuffixes),
                                found \in {"file", "dir", "none", "error"}}
    \cup {PathOf(FALSE, <<>>, "none")}
Extensions == {<<".", "e", "r", "f">>, <<".", "E", "R", "F">>, <<".", "m", "o", "d">>,
               <<".", "h", "a", "k">>, <<".", "n", "v", "m">>, <<".", "n", "w", "m">>,
               <<".", "z", "i", "p">>,
               <<>>}

\* Path.glob("*.*") on a name: it holds a dot
glob_dotted(name) == \E i \in 1..Len(name) : name[i] = "."

\* an entry of a folder (kind "file" or "dir") or of an archive (kind "file")
Entry(name, kind, data) == [name |-> name, kind |-> kind, data |-> data]

\* a folder on the disk, and the file erf.Writer is given: file_type and
\* added are what the writer was asked for, partial is a file opened "wb"
\* and left before the writer closed
Folder(exists, files) == [exists |-> exists, files |-> files]
ErfFile(exists, partial, file_type, added) ==
    [exists |-> exists, partial |-> partial, file_type |-> file_type, added |-> added]
NoErfFile == ErfFile(FALSE, FALSE, <<>>, {})

\* _Erf._Single.extract_erf_to_folder: arg_input_fp holds the entries of
\* archive, in the order of reader.filenames; folder is arg_output_dp
RECURSIVE extract_files(_, _)
extract_files(archive, files) ==
    IF archive = <<>> THEN [outcome |-> "ok", files |-> files]
    ELSE LET e == Head(archive)
         IN  IF \E f \in files : f.name = e.name /\ f.kind = "dir"
             THEN [outcome |-> "raised", files |-> files]
             ELSE extract_files(Tail(archive),
                                {f \in files : f.name # e.name}
                                    \cup {Entry(e.name, "file", e.data)})
extract_erf_to_folder(arg_input_fp, archive, folder) ==
    IF ~is_erf_file(arg_input_fp, FALSE)
    THEN [outcome |-> "skipped", folder |-> folder]
    ELSE LET r == extract_files(archive, folder.files)
         IN  [outcome |-> r.outcome, folder |-> Folder(TRUE, r.files)]

\* _Erf._Single.create_erf_from_folder: arg_input_dp is folder, found holds
\* the entries of arg_input_dp.glob("*.*") in the order the disk gives them,
\* out is the file under arg_output_fp
RECURSIVE add_files(_, _)
add_files(found, added) ==
    IF found = <<>> THEN [outcome |-> "ok", added |-> added]
    ELSE IF Head(found).kind = "dir" THEN [outcome |-> "raised", added |-> added]
    ELSE add_files(Tail(found), added \cup {Entry(Head(found).name, "file", Head(found).data)})
create_erf_from_folder(arg_input_dp, found, arg_output_fp, out) ==
    IF ~is_erf_folder(arg_input_dp, FALSE)
    THEN [outcome |-> "skipped", out |-> out]
    ELSE LET erf_type == get_erf_type_by_extension(
                             arg_output_fp.suffixes[Len(arg_output_fp.suffixes)]).erf_type
             r == add_files(found, {})
         IN  [outcome |-> r.outcome,
              out |-> ErfFile(TRUE, r.outcome # "ok", erf_type, r.added)]

\* _get_erf_path_pairs: the folder an archive is extracted to and the
\* archive a folder is made into carry the name of the input
erf_pair_path(arg_input, found) == PathOf(arg_input.is_path, arg_input.suffixes, found)

\* the archives, the folders and the files the operations are made on
ErfData == {1, 2}
ErfNames == {<<"a", ".", "u">>, <<"b", ".", "u">>}
Archives ==
    {<<>>}
    \cup {<<Entry(n, "file", d)>> : n \in ErfNames, d \in ErfData}
    \cup {q \in {<<Entry(n, "file", d), Entry(m, "file", c)>> :
                      n \in ErfNames, m \in ErfNames, d \in ErfData, c \in ErfData} :
              q[1].name # q[2].name}
FolderEntries ==
    {Entry(<<"c", ".", "u">>, "file", 1), Entry(<<"a", ".", "u">>, "file", 2),
     Entry(<<"r">>, "file", 1), Entry(<<"d", ".", "d">>, "dir", 0),
     Entry(<<"b", ".", "u">>, "dir", 0)}
Folders == {Folder(FALSE, {})} \cup {Folder(TRUE, fs) : fs \in SUBSET FolderEntries}
ErfPaths ==
    {PathOf(TRUE, <<sfx>>, found) :
        sfx \in {<<".", "h", "a", "k">>, <<".", "H", "A", "K">>, <<".", "m", "o", "d">>,
                 <<".", "n", "w", "m">>, <<".", "t", "x", "t">>},
        found \in {"file", "none"}}
ErfFiles == {NoErfFile, ErfFile(TRUE, FALSE, <<"M", "O", "D", " ">>, {})}

\* the state of the archive operations: the archive given, the folder and
\* the output file as they are and as they were, and the calls made
ErfState(input_fp, archive, folder, out, folder0, out0, log) ==
    [input_fp |-> input_fp, archive |-> archive, folder |-> folder, out |-> out,
     folder0 |-> folder0, out0 |-> out0, log |-> log]
NoErf == ErfState(PathOf(FALSE, <<>>, "none"), <<>>, Folder(FALSE, {}), NoErfFile,
                  Folder(FALSE, {}), NoErfFile, <<>>)

-----------------------------------------------------------------------------
(* The recipes of _KeyBif *)

\* a python dict of strings, as its (key, value) pairs in order
Get(props, k) ==
    IF \E i \in DOMAIN props : props[i][1] = k
    THEN props[CHOOSE i \in DOMAIN props : props[i][1] = k][2]
    ELSE <<>>
Has(props, k) == \E i \in DOMAIN props : props[i][1] = k
Without(props, k) == SelectSeq(props, LAMBDA kv : kv[1] # k)
\* dict.update
RECURSIVE Update(_, _)
Update(props, more) ==
    IF more = <<>> THEN props
    ELSE LET kv == Head(more)
             set == IF Has(props, kv[1])
                    THEN [i \in DOMAIN props |-> IF props[i][1] = kv[1] THEN kv ELSE props[i]]
                    ELSE Append(props, kv)
         IN  Update(set, Tail(more))

\* a line of _get_tokenized_input: its type and its other entries
Token(type, props) == [type |-> type, props |-> props]

\* the current_node of _get_structured_input; type "" is the empty dict
RecipeNode(type, id, description, game, match, exclude) ==
    [type |-> type, id |-> id, description |-> description,
     game |-> game, match |-> match, exclude |-> exclude]
NoNode == RecipeNode("", Zero, <<>>, <<>>, <<>>, <<>>)

\* data["sources"] and data["recipes"]: dicts keyed by id, as sequences
PutNode(nodes, node) ==
    IF \E i \in DOMAIN nodes : nodes[i].id = node.id
    THEN [i \in DOMAIN nodes |-> IF nodes[i].id = node.id THEN node ELSE nodes[i]]
    ELSE Append(nodes, node)
FindNode(nodes, id) == SelectSeq(nodes, LAMBDA n : n.id = id)

\* merge_node: `if node_type and node_id` passes over the empty node and
\* over a node whose id is 0
merge_node(arg_node, data) ==
    IF arg_node.type # "" /\ arg_node.id # Zero
    THEN IF arg_node.type = "source"
         THEN [data EXCEPT !.sources = PutNode(data.sources, arg_node)]
         ELSE [data EXCEPT !.recipes = PutNode(data.recipes, arg_node)]
    ELSE data

\* _input_structure[type]["children"]
Children(type) ==
    CASE type = "source" -> {"game"}
      [] type = "recipe" -> {"match", "exclude"}
      [] OTHER -> {}

\* int(token[k]) of a value the tokenizer took as digits or as quoted text
IntOf(text) == IF IsIntText(text) THEN Ok(StrToInt(text)) ELSE Fail("ValueError")

\* the loop of _get_structured_input over the tokens
RECURSIVE structure_tokens(_, _, _)
structure_tokens(tokens, data, current_node) ==
    IF tokens = <<>> THEN Ok(merge_node(current_node, data))
    ELSE LET token == Head(tokens)
             rest == Tail(tokens)
         IN  IF token.type = "selected"
             THEN LET src == IF Has(token.props, "source_id")
                             THEN IntOf(Get(token.props, "source_id")) ELSE Ok(data.source_id)
                      rcp == IF Has(token.props, "recipe_id")
                             THEN IntOf(Get(token.props, "recipe_id")) ELSE Ok(data.recipe_id)
                  IN  IF src.err # "" THEN src
                      ELSE IF rcp.err # "" THEN rcp
                      ELSE structure_tokens(rest,
                               [data EXCEPT
                                   !.source_id = src.val,
                                   !.has_source_id = @ \/ Has(token.props, "source_id"),
                                   !.recipe_id = rcp.val,
                                   !.has_recipe_id = @ \/ Has(token.props, "recipe_id")],
                               current_node)
             ELSE IF token.type \in {"source", "recipe"}
             THEN LET id == IF Has(token.props, "id")
                            THEN IntOf(Get(token.props, "id")) ELSE Ok(MkInt(-1))
                  IN  IF id.err # "" THEN id
                      ELSE structure_tokens(rest, merge_node(current_node, data),
                               RecipeNode(token.type, id.val, Get(token.props, "description"),
                                          <<>>, <<>>, <<>>))
             ELSE IF current_node.type = "" THEN Fail("KeyError")
             ELSE IF token.type \in Children(current_node.type)
             THEN structure_tokens(rest, data,
                      CASE token.type = "game" ->
                               [current_node EXCEPT !.game = Update(@, token.props)]
                        [] token.type = "match" ->
                               [current_node EXCEPT !.match = Append(@, token.props)]
                        [] OTHER ->
                               [current_node EXCEPT !.exclude = Append(@, token.props)])
             ELSE structure_tokens(rest, data, current_node)

\* what _get_structured_input returns: the recipe id, the game of the
\* selected source and the selected recipe (found FALSE: the empty dict)
Resolved(err, recipe_id, game, found, match, exclude) ==
    [err |-> err, recipe_id |-> recipe_id, game |-> game,
     found |-> found, match |-> match, exclude |-> exclude]
Unresolved(err) == Resolved(err, Zero, <<>>, FALSE, <<>>, <<>>)

get_structured_input(tokens) ==
    LET r == structure_tokens(tokens,
                 [source_id |-> Zero, has_source_id |-> FALSE,
                  recipe_id |-> Zero, has_recipe_id |-> FALSE,
                  sources |-> <<>>, recipes |-> <<>>],
                 NoNode)
    IN  IF r.err # "" THEN Unresolved(r.err)
        ELSE LET data == r.val
                 source == IF data.has_source_id THEN FindNode(data.sources, data.source_id)
                           ELSE <<>>
                 recipe == IF data.has_recipe_id THEN FindNode(data.recipes, data.recipe_id)
                           ELSE <<>>
             IN  IF source = <<>> THEN Unresolved("KeyError")
                 ELSE IF recipe = <<>>
                 THEN Resolved("", data.recipe_id, source[1].game, FALSE, <<>>, <<>>)
                 ELSE Resolved("", data.recipe_id, source[1].game, TRUE,
                               recipe[1].match, recipe[1].exclude)

\* resolve_token_wildcards: the token in lower case, with a character class
\* for each wildcard
resolve_token_wildcards(arg_token) ==
    [i \in 1..Len(arg_token) |->
        CASE arg_token[i] = "?" -> "\\w"
          [] arg_token[i] = "#" -> "[0-9]"
          [] arg_token[i] = "@" -> "[a-z]"
          [] OTHER -> LowerChar(arg_token[i])]

\* _value_tokenizer.split: the pieces between runs of , whitespace | ; ' "
IsValueDelimiter(c) == IsSpace(c) \/ c \in {",", "|", ";", "'", QUOTE}
RECURSIVE value_pieces(_, _)
value_pieces(text, current) ==
    IF text = <<>> THEN <<current>>
    ELSE IF IsValueDelimiter(Head(text))
    THEN <<current>> \o value_pieces(Tail(text), <<>>)
    ELSE value_pieces(Tail(text), Append(current, Head(text)))

\* get_value_tokens: the resolved tokens, without the empty and the repeated
RECURSIVE distinct_tokens(_, _)
distinct_tokens(pieces, tokens) ==
    IF pieces = <<>> THEN tokens
    ELSE LET resolved == resolve_token_wildcards(Head(pieces))
         IN  distinct_tokens(Tail(pieces),
                 IF resolved # <<>> /\ ~\E i \in DOMAIN tokens : tokens[i] = resolved
                 THEN Append(tokens, resolved) ELSE tokens)
get_value_tokens(arg_value) == distinct_tokens(value_pieces(arg_value, <<>>), <<>>)

\* get_filters: the filenames and the pattern groups of the match and of the
\* exclude lines of a recipe; a group keeps the tokens of each of its entries
PatternGroup(entry) ==
    [k \in {"name_start", "name_end", "name_part", "extension"} |->
        get_value_tokens(Get(entry, k))]
RECURSIVE filenames_of(_)
filenames_of(entries) ==
    IF entries = <<>> THEN <<>>
    ELSE get_value_tokens(Get(Head(entries), "fullname")) \o filenames_of(Tail(entries))
RECURSIVE patterns_of(_)
patterns_of(entries) ==
    IF entries = <<>> THEN <<>>
    ELSE (IF Without(Head(entries), "fullname") # <<>>
          THEN <<PatternGroup(Without(Head(entries), "fullname"))>> ELSE <<>>)
         \o patterns_of(Tail(entries))
get_filters(arg_filter_data) ==
    [exclude_filenames |-> filenames_of(arg_filter_data.exclude),
     include_filenames |-> filenames_of(arg_filter_data.match),
     exclude_patterns |-> patterns_of(arg_filter_data.exclude),
     include_patterns |-> patterns_of(arg_filter_data.match)]

\* Path(name).suffix and Path(name).stem
LastDot(name) ==
    IF Contains(name, ".") THEN CHOOSE i \in 1..Len(name) :
                                   name[i] = "." /\ \A j \in (i + 1)..Len(name) : name[j] # "."
    ELSE 0
PathSuffix(name) ==
    IF 1 < LastDot(name) /\ LastDot(name) < Len(name)
    THEN SubSeq(name, LastDot(name), Len(name)) ELSE <<>>
PathStem(name) == SubSeq(name, 1, Len(name) - Len(PathSuffix(name)))

\* the regular expressions compile_patterns makes of a token: an element of
\* the token stands for the characters it matches
AtomMatches(a, c) ==
    CASE a = "\\w" -> IsIn(UPPER, c) \/ IsIn(LOWER, c) \/ IsIn(DIGITS, c) \/ c = "_"
      [] a = "[0-9]" -> IsIn(DIGITS, c)
      [] a = "[a-z]" -> IsIn(LOWER, c)
      [] a = "." -> c # LF
      [] OTHER -> a = c
MatchAt(p, text, i) ==
    /\ i >= 1 /\ i + Len(p) - 1 <= Len(text)
    /\ \A k \in 1..Len(p) : AtomMatches(p[k], text[i + k - 1])
PatternMatches(k, p, text) ==
    CASE k = "name_start" -> MatchAt(p, text, 1)
      [] k = "name_part" -> \E i \in 1..(Len(text) + 1) : MatchAt(p, text, i)
      [] k = "name_end" -> MatchAt(p, text, Len(text) - Len(p) + 1)
      [] OTHER -> Len(p) = Len(text) /\ MatchAt(p, text, 1)

\* _is_match_by_patterns
GroupMatches(arg_filename, group) ==
    /\ \E k \in DOMAIN group : group[k] # <<>>
    /\ \A k \in DOMAIN group :
           group[k] # <<>> =>
               \E i \in DOMAIN group[k] :
                   PatternMatches(k, group[k][i],
                                  IF k = "extension"
                                  THEN LStripChar(PathSuffix(arg_filename), ".")
                                  ELSE PathStem(arg_filename))
is_match_by_patterns(arg_filename, arg_patterns) ==
    \E g \in DOMAIN arg_patterns : GroupMatches(arg_filename, arg_patterns[g])

\* _is_match with the whitelist looked at first
is_match_whitelist_first(arg_filename, arg_filters) ==
    IF \E i \in DOMAIN arg_filters.include_filenames :
           arg_filters.include_filenames[i] = arg_filename THEN TRUE
    ELSE IF \E i \in DOMAIN arg_filters.exclude_filenames :
                arg_filters.exclude_filenames[i] = arg_filename THEN FALSE
    ELSE IF is_match_by_patterns(arg_filename, arg_filters.exclude_patterns) THEN FALSE
    ELSE is_match_by_patterns(arg_filename, arg_filters.include_patterns)

\* _is_match
is_match(arg_filename, arg_filters) ==
    IF \E i \in DOMAIN arg_filters.exclude_filenames :
           arg_filters.exclude_filenames[i] = arg_filename THEN FALSE
    ELSE IF \E i \in DOMAIN arg_filters.include_filenames :
                arg_filters.include_filenames[i] = arg_filename THEN TRUE
    ELSE IF is_match_by_patterns(arg_filename, arg_filters.exclude_patterns) THEN FALSE
    ELSE IF is_match_by_patterns(arg_filename, arg_filters.include_patterns) THEN TRUE
    ELSE FALSE

\* the tokens of the recipes file _get_default_recipes gives
DefaultRecipes ==
    <<Token("selected", <<<<"source_id", <<"0">>>>, <<"recipe_id", <<"0">>>>>>),
      Token("source", <<<<"id", <<"0">>>>, <<"description", <<"S", "t", "a", "b", "l", "e">>>>>>),
      Token("game", <<<<"path", <<"/", "m", "y", "/", "g", "a", "m", "e", "s", "/", "s", "t",
            "e", "a", "m", "/", "s", "t", "e", "a", "m", "a", "p", "p", "s", "/", "c", "o", "m",
            "m", "o", "n", "/", "N", "e", "v", "e", "r", "w", "i", "n", "t", "e", "r", " ", "N",
            "i", "g", "h", "t", "s">>>>>>),
      Token("game", <<<<"keylist", <<"n", "w", "n", "_", "r", "e", "t", "a", "i", "l", ",", " ",
            "n", "w", "n", "_", "b", "a", "s", "e">>>>>>),
      Token("recipe", <<<<"id", <<"0">>>>, <<"description", <<"T", "e", "m", "p", "l", "a", "t",
            "e">>>>>>),
      Token("recipe", <<<<"id", <<"1", "0", "0", "0">>>>, <<"description", <<"A", "l", "l", " ",
            "G", "F", "F", " ", "f", "i", "l", "e", "s">>>>>>),
      Token("match", <<<<"extension", <<"a", "r", "e", ",", " ", "g", "i", "t", ",", " ", "g",
            "i", "c", ",", " ", "b", "i", "c", ",", " ", "d", "l", "g", ",", " ", "f", "a", "c",
            ",", " ", "g", "f", "f", ",", " ", "g", "u", "i", ",", " ", "i", "f", "o", ",", " ",
            "i", "t", "p", ",", " ", "j", "r", "l">>>>>>),
      Token("match", <<<<"extension", <<"u", "t", "@">>>>>>),
      Token("recipe", <<<<"id", <<"1", "0", "0", "1">>>>, <<"description", <<"A", "l", "l", " ",
            "2", "D", "A", " ", "f", "i", "l", "e", "s", " ", "e", "x", "c", "e", "p", "t", " ",
            "t", "i", "l", "e", "s", "e", "t", "-", "r", "e", "l", "a", "t", "e", "d">>>>>>),
      Token("exclude", <<<<"name_end", <<"_", "e", "d", "g", "e">>>>, <<"extension", <<"2", "d",
            "a">>>>>>),
      Token("exclude", <<<<"name_part", <<"d", "o", "o", "r">>>>, <<"extension", <<"2", "d",
            "a">>>>>>),
      Token("match", <<<<"extension", <<"2", "d", "a">>>>>>),
      Token("recipe", <<<<"id", <<"1", "0", "0", "2">>>>, <<"description", <<"T", "i", "l", "e",
            "s", "e", "t", " ", "c", "o", "n", "t", "r", "o", "l", " ", "f", "i", "l", "e",
            "s">>>>>>),
      Token("match", <<<<"name_end", <<"_", "e", "d", "g", "e">>>>, <<"extension", <<"2", "d",
            "a">>>>>>),
      Token("match", <<<<"extension", <<"s", "e", "t">>>>>>),
      Token("recipe", <<<<"id", <<"1", "0", "0", "3">>>>, <<"description", <<"G", "U", "I", "-",
            "r", "e", "l", "a", "t", "e", "d", " ", "f", "i", "l", "e", "s">>>>>>),
      Token("match", <<<<"fullname", <<"d", "t", "h", "_", "d", "e", "a", "t", "h", "o", "p",
            "t", "s", ".", "m", "d", "l", ",", " ", "e", "d", "i", "t", "s", "v", "r", "s", "t",
            "a", "t", ".", "m", "d", "l", ",", " ", "e", "m", "p", "t", "y", ".", "m", "d", "l",
            ",", " ", "g", "u", "i", "_", "e", "m", "p", "t", "y", ".", "m", "d", "l">>>>>>),
      Token("match", <<<<"extension", <<"g", "u", "i">>>>>>),
      Token("match", <<<<"name_start", <<"g", "u", "i">>>>, <<"extension", <<"m", "d", "l", ",",
            " ", "t", "g", "a", ",", " ", "d", "d", "s", ",", " ", "p", "l", "t">>>>>>),
      Token("match", <<<<"name_start", <<"c", "t", "l", "_", ",", " ", "e", "d", "i", "t", "_",
            ",", " ", "i", "n", "v", "_", ",", " ", "p", "n", "l", "_">>>>, <<"extension",
            <<"m", "d", "l">>>>>>),
      Token("recipe", <<<<"id", <<"1", "0", "0", "4">>>>, <<"description", <<"P", "a", "r", "t",
            "-", "b", "a", "s", "e", "d", " ", "m", "o", "d", "e", "l", "s">>>>>>),
      Token("match", <<<<"name_start", <<"p", "m", "@", "#", "_", "@", ",", " ", "p", "f", "@",
            "#", "#", "#", "_", "@">>>>, <<"extension", <<"m", "d", "l", ",", " ", "p", "l",
            "t">>>>>>),
      Token("match", <<<<"name_start", <<"i", "p", "m", "_", ",", " ", "i", "p", "f", "_">>>>,
            <<"extension", <<"p", "l", "t">>>>>>)>>

\* the recipes files, as the tokens of their lines: a selection, then source
\* blocks and recipe blocks of distinct ids
MaxBlocks == 2
BlockIds == {<<"0">>, <<"1">>, <<"2">>}
SourceBlock(id) ==
    <<Token("source", <<<<"id", id>>, <<"description", <<"S">>>>>>),
      Token("game", <<<<"path", <<"/", "g">> \o id>>>>),
      Token("game", <<<<"keylist", <<"k">> \o id>>>>)>>
RecipeBlock(id) ==
    <<Token("recipe", <<<<"id", id>>, <<"description", <<"R">>>>>>),
      Token("match", <<<<"extension", <<"x">> \o id>>>>),
      Token("exclude", <<<<"fullname", <<"n", ".", "x">> \o id>>>>)>>
IdLists == {ids \in SeqsUpTo(BlockIds, MaxBlocks) :
               \A i, j \in DOMAIN ids : i # j => ids[i] # ids[j]}
RECURSIVE Blocks(_, _)
Blocks(ids, type) ==
    IF ids = <<>> THEN <<>>
    ELSE (IF type = "source" THEN SourceBlock(Head(ids)) ELSE RecipeBlock(Head(ids)))
         \o Blocks(Tail(ids), type)
RecipesFiles ==
    {DefaultRecipes}
    \cup {<<Token("selected", <<<<"source_id", n>>, <<"recipe_id", m>>>>)>>
              \o Blocks(sources, "source") \o Blocks(recipes, "recipe") :
          n \in BlockIds, m \in BlockIds, sources \in IdLists \ {<<>>}, recipes \in IdLists}

\* the names of the resources and the match and exclude lines of a recipe
Resources == {<<"a", ".", "x">>, <<"A", "B", ".", "x">>, <<"a", "1", ".", "x">>,
              <<"b", ".", "y">>, <<"a">>}
MaxEntries == 1
FilterEntries ==
    {<<<<"fullname", <<"a", ".", "x">>>>>>,
     <<<<"fullname", <<"A", "b", ".", "X", ",", " ", "b", ".", "y">>>>>>,
     <<<<"extension", <<"x">>>>>>,
     <<<<"name_start", <<"a">>>>, <<"extension", <<"x", ";", "y">>>>>>,
     <<<<"name_part", <<"#">>>>>>,
     <<<<"name_end", <<"@", "b">>>>>>,
     <<<<"name_start", <<"?">>>>, <<"name_end", <<"1">>>>>>,
     <<<<"extension", <<" ">>>>>>,
     <<<<"fullname", <<"a", "1", ".", "x">>>>, <<"extension", <<"y">>>>>>}
FilterData ==
    {[match |-> m, exclude |-> e] : m \in SeqsUpTo(FilterEntries, MaxEntries),
                                   e \in SeqsUpTo(FilterEntries, MaxEntries)}

\* a call of _KeyBif: _get_structured_input on tokens, or the decision of
\* export_game_resources on a resource under the filters of a recipe
KeyBifCall(fn, tokens, resource, filter_data, out, ret) ==
    [fn |-> fn, tokens |-> tokens, resource |-> resource, filter_data |-> filter_data,
     out |-> out, ret |-> ret]
NoKeyBif == KeyBifCall("", <<>>, <<>>, [match |-> <<>>, exclude |-> <<>>], Unresolved(""), FALSE)

\* a call: the function, its arguments, and what it gave
Call(fn, path, skip, ext, ret, erf_type, printed) ==
    [fn |-> fn, path |-> path, skip |-> skip, ext |-> ext,
     ret |-> ret, erf_type |-> erf_type, printed |-> printed,
     output |-> PathOf(FALSE, <<>>, "none")]
NoCallOn(path) == Call("", path, FALSE, <<>>, FALSE, <<>>, FALSE)
NoCall == NoCallOn(PathOf(FALSE, <<>>, "none"))

\* the fields of the instance a call does not touch
CodecIdle ==
    UNCHANGED <<ndugff_dict, gff_file, json_file, dsl_file, last, chain, printed_line>>

PathTest(fn, ret) ==
    /\ call.fn = ""
    /\ call' = [call EXCEPT !.fn = fn, !.ret = ret]
    /\ erf' = erf /\ keybif' = keybif
    /\ CodecIdle

IsGffFile ==
    \E skip \in BOOLEAN :
        /\ call.skip = skip
        /\ PathTest("is_gff_file", is_gff_file(call.path, skip))
IsNdugffFile ==
    \E skip \in BOOLEAN :
        /\ call.skip = skip
        /\ PathTest("is_ndugff_file", is_ndugff_file(call.path, skip))
IsJsonFile ==
    \E skip \in BOOLEAN :
        /\ call.skip = skip
        /\ PathTest("is_json_file", is_json_file(call.path, skip))
IsErfFile ==
    \E skip \in BOOLEAN :
        /\ call.skip = skip
        /\ PathTest("is_erf_file", is_erf_file(call.path, skip))
IsErfFolder ==
    \E skip \in BOOLEAN :
        /\ call.skip = skip
        /\ PathTest("is_erf_folder", is_erf_folder(call.path, skip))

\* the output_namer of the converters of _Gff._Batch, on the suffixes of the
\* name: the name with an extension behind it, Path.stem, and Path.stem with
\* an extension behind it
name_with(suffixes, ext) == Append(suffixes, ext)
stem(suffixes) == SubSeq(suffixes, 1, Len(suffixes) - 1)
stem_with(suffixes, ext) == Append(stem(suffixes), ext)
ndugff_ext == <<".", "n", "d", "u", "g", "f", "f">>
json_ext == <<".", "j", "s", "o", "n">>

\* a pair of _get_nested_path_pairs as a converter makes it, for an input
\* its validator let through, and the path check of the writer the
\* converter hands the output path to
PathPair(fn, output) ==
    /\ call.fn = "" /\ ~call.skip
    /\ call' = [call EXCEPT !.fn = fn, !.output = output,
                            !.ret = CASE fn \in {"convert_json_to_gff", "convert_ndugff_to_gff"} ->
                                             is_gff_file(output, TRUE)
                                      [] fn \in {"convert_gff_to_json", "convert_ndugff_to_json"} ->
                                             is_json_file(output, TRUE)
                                      [] OTHER -> is_ndugff_file(output, TRUE)]
    /\ erf' = erf /\ keybif' = keybif
    /\ CodecIdle

ConvertGffToJson ==
    /\ is_gff_file(call.path, FALSE)
    /\ PathPair("convert_gff_to_json",
                PathOf(TRUE, name_with(call.path.suffixes, json_ext), "none"))
ConvertJsonToGff ==
    /\ is_json_file(call.path, FALSE)
    /\ PathPair("convert_json_to_gff", PathOf(TRUE, stem(call.path.suffixes), "none"))
ConvertGffToNdugff ==
    /\ is_gff_file(call.path, FALSE)
    /\ PathPair("convert_gff_to_ndugff",
                PathOf(TRUE, name_with(call.path.suffixes, ndugff_ext), "none"))
ConvertNdugffToGff ==
    /\ is_ndugff_file(call.path, FALSE)
    /\ PathPair("convert_ndugff_to_gff", PathOf(TRUE, stem(call.path.suffixes), "none"))
ConvertJsonToNdugff ==
    /\ is_json_file(call.path, FALSE)
    /\ PathPair("convert_json_to_ndugff",
                PathOf(TRUE, stem_with(call.path.suffixes, ndugff_ext), "none"))
ConvertNdugffToJson ==
    /\ is_ndugff_file(call.path, FALSE)
    /\ PathPair("convert_ndugff_to_json",
                PathOf(TRUE, stem_with(call.path.suffixes, json_ext), "none"))

GetErfTypeByExtension ==
    /\ call.fn = ""
    /\ \E ext \in Extensions :
           call' = [call EXCEPT !.fn = "_get_erf_type_by_extension", !.ext = ext,
                                !.erf_type = get_erf_type_by_extension(ext).erf_type,
                                !.printed = get_erf_type_by_extension(ext).printed]
    /\ erf' = erf /\ keybif' = keybif
    /\ CodecIdle

ToolsInit ==
    /\ ndugff_dict = NoneDict
    /\ gff_file = NoGff /\ json_file = NoJson /\ dsl_file = NoDsl
    /\ last = [op |-> "init", outcome |-> "ok"]
    /\ chain = 0
    /\ \E path \in Paths, skip \in BOOLEAN : call = [NoCallOn(path) EXCEPT !.skip = skip]
    /\ erf = NoErf
    /\ keybif = NoKeyBif
    /\ printed_line = 0

ToolsNext ==
    IsGffFile \/ IsNdugffFile \/ IsJsonFile \/ IsErfFile \/ IsErfFolder
    \/ GetErfTypeByExtension
    \/ ConvertGffToJson \/ ConvertJsonToGff \/ ConvertGffToNdugff
    \/ ConvertNdugffToGff \/ ConvertJsonToNdugff \/ ConvertNdugffToJson

ToolsSpec == ToolsInit /\ [][ToolsNext]_vars

-----------------------------------------------------------------------------
(* The archive operations of _Erf, on the paths _get_erf_path_pairs pairs *)

Orders(S) == {q \in [1..Cardinality(S) -> S] : \A e \in S : \E i \in DOMAIN q : q[i] = e}

MaxErfCalls == 2

ExtractErfToFolder ==
    /\ Len(erf.log) < MaxErfCalls
    /\ LET r == extract_erf_to_folder(erf.input_fp, erf.archive, erf.folder)
       IN  erf' = [erf EXCEPT !.folder = r.folder,
                              !.folder0 = erf.folder,
                              !.log = Append(erf.log, [op |-> "extract_erf_to_folder", outcome |-> r.outcome])]
    /\ call' = call /\ keybif' = keybif
    /\ CodecIdle

CreateErfFromFolder ==
    /\ Len(erf.log) < MaxErfCalls
    /\ \E found \in Orders({f \in erf.folder.files : glob_dotted(f.name)}) :
           LET input_dp == erf_pair_path(erf.input_fp,
                                         IF erf.folder.exists THEN "dir" ELSE "none")
               r == create_erf_from_folder(input_dp, found,
                                           erf_pair_path(erf.input_fp, "none"), erf.out)
           IN  erf' = [erf EXCEPT !.out = r.out,
                                  !.out0 = erf.out,
                                  !.log = Append(erf.log, [op |-> "create_erf_from_folder", outcome |-> r.outcome])]
    /\ call' = call /\ keybif' = keybif
    /\ CodecIdle

ErfInit ==
    /\ ndugff_dict = NoneDict
    /\ gff_file = NoGff /\ json_file = NoJson /\ dsl_file = NoDsl
    /\ last = [op |-> "init", outcome |-> "ok"]
    /\ chain = 0
    /\ call = NoCall
    /\ keybif = NoKeyBif
    /\ printed_line = 0
    /\ \E input_fp \in ErfPaths, archive \in Archives, folder \in Folders, out \in ErfFiles :
           erf = ErfState(input_fp, archive, folder, out, folder, out, <<>>)

ErfNext == ExtractErfToFolder \/ CreateErfFromFolder

ErfSpec == ErfInit /\ [][ErfNext]_vars

-----------------------------------------------------------------------------
(* The calls of _KeyBif *)

GetStructuredInput ==
    /\ keybif.fn = "" /\ keybif.tokens # <<>>
    /\ keybif' = [keybif EXCEPT !.fn = "_get_structured_input",
                                !.out = get_structured_input(keybif.tokens)]
    /\ call' = call /\ erf' = erf
    /\ CodecIdle

\* the loop of export_game_resources on one resource of the key file
IsMatch ==
    /\ keybif.fn = "" /\ keybif.resource # <<>>
    /\ keybif' = [keybif EXCEPT !.fn = "_is_match",
                                !.ret = is_match(Lower(keybif.resource),
                                                 get_filters(keybif.filter_data))]
    /\ call' = call /\ erf' = erf
    /\ CodecIdle

KeyBifInit ==
    /\ ndugff_dict = NoneDict
    /\ gff_file = NoGff /\ json_file = NoJson /\ dsl_file = NoDsl
    /\ last = [op |-> "init", outcome |-> "ok"]
    /\ chain = 0
    /\ call = NoCall
    /\ erf = NoErf
    /\ printed_line = 0
    /\ \/ \E tokens \in RecipesFiles : keybif = [NoKeyBif EXCEPT !.tokens = tokens]
       \/ \E resource \in Resources, filter_data \in FilterData :
              keybif = [NoKeyBif EXCEPT !.resource = resource, !.filter_data = filter_data]

KeyBifNext == GetStructuredInput \/ IsMatch

KeyBifSpec == KeyBifInit /\ [][KeyBifNext]_vars

-----------------------------------------------------------------------------
(* The operations of one _Single instance *)

Op(name, outcome) == [op |-> name, outcome |-> outcome]

\* the position reached in load_gff, write_json, load_json, write_gff made twice
ChainNext(c, name, outcome) ==
    LET want == <<"load_gff", "write_json", "load_json", "write_gff",
                  "load_gff", "write_json", "load_json", "write_gff">>
    IN  IF outcome = "ok" /\ c < 8 /\ want[c + 1] = name THEN c + 1
        ELSE IF outcome = "ok" /\ name = "load_gff" THEN 1
        ELSE 0

Ghost(name, outcome) ==
    /\ last' = Op(name, outcome)
    /\ chain' = ChainNext(chain, name, outcome)
    /\ call' = call
    /\ erf' = erf
    /\ keybif' = keybif

LoadGff ==
    /\ IF ~gff_file.exists \/ gff_file.partial
       THEN \* a missing file is passed by; on a file that is no GFF gff.read raises,
            \* a ValueError or another exception
            /\ ndugff_dict' = ndugff_dict
            /\ IF gff_file.exists
               THEN \E o \in {"ValueError", "raised"} : Ghost("load_gff", o)
               ELSE Ghost("load_gff", "skipped")
       ELSE LET r == load_gff(gff_file)
            IN  /\ ndugff_dict' = IF r.outcome = "ok" THEN r.dict ELSE ndugff_dict
                /\ Ghost("load_gff", r.outcome)
    /\ UNCHANGED <<gff_file, json_file, dsl_file, printed_line>>

WriteGff ==
    /\ IF ~Truthy(ndugff_dict)
       THEN /\ gff_file' = gff_file
            /\ Ghost("write_gff", "skipped")
       ELSE LET r == write_gff(ndugff_dict.items, gff_file)
            IN  /\ gff_file' = r.file
                /\ Ghost("write_gff", r.outcome)
    /\ UNCHANGED <<ndugff_dict, json_file, dsl_file, printed_line>>

LoadJson ==
    /\ IF ~json_file.exists
       THEN /\ ndugff_dict' = ndugff_dict
            /\ Ghost("load_json", "skipped")
       ELSE LET r == load_json(json_file)
            IN  /\ ndugff_dict' = IF r.outcome = "ok" THEN r.dict ELSE ndugff_dict
                /\ Ghost("load_json", r.outcome)
    /\ UNCHANGED <<gff_file, json_file, dsl_file, printed_line>>

WriteJson ==
    /\ IF ~Truthy(ndugff_dict)
       THEN /\ json_file' = json_file
            /\ Ghost("write_json", "skipped")
       ELSE LET r == write_json(ndugff_dict.items, json_file)
            IN  /\ json_file' = r.file
                /\ Ghost("write_json", r.outcome)
    /\ UNCHANGED <<ndugff_dict, gff_file, dsl_file, printed_line>>

LoadNdugff ==
    /\ IF ~dsl_file.exists
       THEN /\ ndugff_dict' = ndugff_dict
            /\ Ghost("load_ndugff", "skipped")
            /\ printed_line' = printed_line
       ELSE LET r == load_ndugff(dsl_file)
            IN  /\ ndugff_dict' = IF r.outcome = "ok" THEN r.dict ELSE ndugff_dict
                /\ Ghost("load_ndugff", r.outcome)
                /\ printed_line' = IF r.outcome = "ok" THEN printed_line ELSE r.nth
    /\ UNCHANGED <<gff_file, json_file, dsl_file>>

WriteNdugff ==
    /\ IF ~Truthy(ndugff_dict)
       THEN /\ dsl_file' = dsl_file
            /\ Ghost("write_ndugff", "skipped")
       ELSE LET r == write_ndugff(ndugff_dict.items, dsl_file)
            IN  /\ dsl_file' = r.file
                /\ Ghost("write_ndugff", r.outcome)
    /\ UNCHANGED <<ndugff_dict, gff_file, json_file, printed_line>>

\* the instance as constructed, and the one file it is given to start from
Init ==
    /\ ndugff_dict = NoneDict
    /\ \/ gff_file \in GffInputs /\ json_file = NoJson /\ dsl_file = NoDsl
       \/ gff_file = NoGff /\ json_file \in JsonInputs /\ dsl_file = NoDsl
       \/ gff_file = NoGff /\ json_file = NoJson /\ dsl_file \in DslInputs
    /\ last = Op("init", "ok")
    /\ chain = 0
    /\ call = NoCall
    /\ erf = NoErf
    /\ keybif = NoKeyBif
    /\ printed_line = 0

Next == LoadGff \/ WriteGff \/ LoadJson \/ WriteJson \/ LoadNdugff \/ WriteNdugff

Spec == Init /\ [][Next]_vars

-----------------------------------------------------------------------------
(* Properties of the codec *)

RECURSIVE NormalStrings(_)
\* every text under the fields has LF line ends and no trailing whitespace
NormalStrings(fields) ==
    \A i \in 1..Len(fields) :
        /\ ~Contains(fields[i].sval, CR)
        /\ RStrip(fields[i].sval) = fields[i].sval
        /\ NormalStrings(fields[i].kids)

\* C1: write_gff made right after load_gff of a file whose texts have LF line
\* ends and no trailing whitespace hands gff.write the file type and the root
\* struct that gff.read returned: same labels, types, values, struct ids and
\* field order.
C1_BinaryRoundTrip ==
    [][(last = Op("load_gff", "ok") /\ last'.op = "write_gff"
        /\ NormalStrings(gff_file.root.kids))
       => (last'.outcome = "ok" /\ gff_file' = gff_file)]_vars

\* C2: load_ndugff made right after write_ndugff ends well and leaves the
\* document that was written.
C2_DslRoundTrip ==
    [][(last = Op("write_ndugff", "ok") /\ last'.op = "load_ndugff")
       => (last'.outcome = "ok" /\ ndugff_dict' = ndugff_dict)]_vars

\* C3: load_json made right after write_json ends well and leaves the
\* document that was written, every struct id included.
C3_JsonRoundTrip ==
    [][(last = Op("write_json", "ok") /\ last'.op = "load_json")
       => (last'.outcome = "ok" /\ ndugff_dict' = ndugff_dict)]_vars

\* C4: the second pass of load_gff, write_json, load_json, write_gff hands
\* gff.write what the first pass handed it.
C4_CrossCodecIdempotent ==
    [][(chain = 7 /\ chain' = 8) => gff_file' = gff_file]_vars

\* C5: no load operation completes normally after an error was raised while
\* it processed its input.
C5_ErrorsSurface ==
    last.op \in {"load_gff", "load_json", "load_ndugff"} => last.outcome # "ValueError"

\* the text without its comment lines and blank lines
WithoutComments(lines) == SelectSeq(lines, LAMBDA ln : ln.kind \notin {"blank", "comment"})

\* C6: load_ndugff does on a text what it does on the text without its
\* comment lines and blank lines.
C6_CommentsIgnored ==
    [][(last'.op = "load_ndugff" /\ dsl_file.exists)
       => LET r == load_ndugff(DslFile(WithoutComments(dsl_file.lines)))
          IN  /\ last'.outcome = r.outcome
              /\ ndugff_dict' = IF r.outcome = "ok" THEN r.dict ELSE ndugff_dict]_vars

RECURSIVE ScopeDepth(_, _)
\* the number of nodes open after the lines, -1 once an end() met none open
ScopeDepth(lines, d) ==
    IF lines = <<>> \/ d < 0 THEN d
    ELSE IF lines[1].kind = "end" THEN ScopeDepth(Tail(lines), d - 1)
    ELSE IF lines[1].kind = "field" /\ lines[1].type \in NODE_TYPES
    THEN ScopeDepth(Tail(lines), d + 1)
    ELSE ScopeDepth(Tail(lines), d)

\* C7: load_ndugff of a text with an end() that closes no node, or with a
\* node left open at its end, ends in an error and leaves the document as
\* it was.
C7_ScopeBalance ==
    [][(last'.op = "load_ndugff" /\ dsl_file.exists /\ ScopeDepth(dsl_file.lines, 0) # 0)
       => (last'.outcome # "ok" /\ ndugff_dict' = ndugff_dict)]_vars

RECURSIVE ListsHoldStructs(_)
\* every element of every list under the fields is one nameless struct
ListsHoldStructs(items) ==
    \A i \in 1..Len(items) :
        IF items[i].type = "gff.List"
        THEN \A j \in 1..Len(items[i].kids) :
                 LET e == items[i].kids[j].kids
                 IN  /\ Len(e) = 1
                     /\ e[1].type = "gff.Struct"
                     /\ e[1].name = <<>>
                     /\ ListsHoldStructs(e[1].kids)
        ELSE ListsHoldStructs(items[i].kids)

\* C8: after a load_ndugff or load_json that ended well every element of
\* every list of the document is a nameless struct.
C8_ListElementShape ==
    (last.op \in {"load_ndugff", "load_json"} /\ last.outcome = "ok")
        => ListsHoldStructs(ndugff_dict.items)

\* a line of the text gives a literal-string type a value with a backslash
DslBackslashLiteral(lines) ==
    \E i \in 1..Len(lines) :
        /\ lines[i].kind = "field"
        /\ lines[i].type \in {"gff.ResRef", "gff.MagicTag", "gff.Base64String"}
        /\ Contains(lines[i].val, BSL)

RECURSIVE JsonBackslashField(_)
\* a field among the members, or under them, is a resref or a void whose
\* value has a backslash
JsonBackslashField(mem) ==
    \E i \in 1..Len(mem) :
        LET f == mem[i].v
            t == JGet(f, K_type)
            v == JGet(f, K_value)
            v64 == JGet(f, K_value64)
        IN  /\ f.jt = "obj"
            /\ t.jt = "str"
            /\ \/ t.sval = JsonTypeName("gff.ResRef") /\ v.jt = "str" /\ Contains(v.sval, BSL)
               \/ t.sval = J_void /\ v64.jt = "str" /\ Contains(v64.sval, BSL)
               \/ t.sval = J_struct /\ v.jt = "obj" /\ JsonBackslashField(v.mem)
               \/ t.sval = J_list /\ v.jt = "arr"
                  /\ \E j \in 1..Len(v.mem) :
                         v.mem[j].v.jt = "obj" /\ JsonBackslashField(v.mem[j].v.mem)

\* the JSON document has a backslash in its file type or in a literal field
JsonBackslashLiteral(f) ==
    /\ f.exists /\ ~f.malformed /\ f.value.jt = "obj"
    /\ \/ JGet(f.value, K_data_type).jt = "str" /\ Contains(JGet(f.value, K_data_type).sval, BSL)
       \/ JsonBackslashField(f.value.mem)

\* C9: load_ndugff and load_json of an input in which a ResRef, MagicTag or
\* Base64String value holds a backslash do not end well, and leave the
\* document as it was.
C9_LiteralStringPurity ==
    [][((last'.op = "load_ndugff" /\ dsl_file.exists /\ DslBackslashLiteral(dsl_file.lines))
        \/ (last'.op = "load_json" /\ JsonBackslashLiteral(json_file)))
       => (last'.outcome \in {"ValueError", "raised"} /\ ndugff_dict' = ndugff_dict)]_vars

\* a load of a text with a backslash in a ResRef has been refused
C9_Witness ==
    /\ last = Op("load_ndugff", "ValueError")
    /\ \E i \in 1..Len(dsl_file.lines) :
           dsl_file.lines[i].type = "gff.ResRef" /\ Contains(dsl_file.lines[i].val, BSL)
    /\ ndugff_dict = NoneDict

RECURSIVE Fields(_)
\* the fields of a dict and all fields under them, in the order of the text
Fields(items) ==
    IF items = <<>> THEN <<>>
    ELSE (IF items[1].type = "dict" THEN <<>> ELSE <<items[1]>>)
         \o Fields(items[1].kids) \o Fields(Tail(items))

FieldLines(lines) == SelectSeq(lines, LAMBDA ln : ln.kind = "field")

\* the text write_ndugff left gives every struct id and every gff.Dword of
\* the document as -1 where it is 0xFFFFFFFF and in decimal where it is not,
\* and every other integer in decimal
SentinelWritten(items, lines) ==
    LET F == Fields(items)
        L == FieldLines(lines)
        pretty(v) == IF v = GFF_UINT32_SENTINEL THEN MinusOne ELSE IntToStr(v)
    IN  /\ Len(F) = Len(L)
        /\ \A i \in 1..Len(F) :
               /\ L[i].type = F[i].type
               /\ F[i].type = "gff.Struct" => L[i].sid = pretty(F[i].id)
               /\ F[i].type = "gff.Dword" => L[i].val = pretty(F[i].ival)
               /\ (InternalValueType(F[i].type) = "int" /\ F[i].type # "gff.Dword")
                      => L[i].val = IntToStr(F[i].ival)

\* every struct id and every integer of the document load_ndugff left is
\* what a line of the text gives it: 0xFFFFFFFF for -1 in a struct id or a
\* gff.Dword, the number written in every other case
SentinelRead(items, lines) ==
    LET F == Fields(items)
        L == FieldLines(lines)
        num(txt, mapped) == IF mapped /\ txt = MinusOne THEN GFF_UINT32_SENTINEL
                            ELSE StrToInt(txt)
    IN  \A i \in 1..Len(F) :
            /\ F[i].type = "gff.Struct" =>
                   \E j \in 1..Len(L) :
                       /\ L[j].type = "gff.Struct" /\ L[j].name = F[i].name /\ L[j].hasSid
                       /\ F[i].id = num(L[j].sid, TRUE)
            /\ InternalValueType(F[i].type) = "int" =>
                   \E j \in 1..Len(L) :
                       /\ L[j].type = F[i].type /\ L[j].name = F[i].name /\ L[j].hasVal
                       /\ F[i].ival = num(StripChar(L[j].val, QUOTE), F[i].type = "gff.Dword")

\* C10: write_ndugff prints 0xFFFFFFFF as -1 in a gff.Dword value and in a
\* struct id and nowhere else, load_ndugff reads -1 as 0xFFFFFFFF in these
\* two places and nowhere else, and every other integer passes unchanged.
C10_SentinelPreservation ==
    /\ last = Op("write_ndugff", "ok") => SentinelWritten(ndugff_dict.items, dsl_file.lines)
    /\ last = Op("load_ndugff", "ok") => SentinelRead(ndugff_dict.items, dsl_file.lines)

\* a text with -1 in a gff.Dword, in a gff.Int and in a struct id and with
\* 4294967295 in a gff.Dword64 has been loaded
C10_Witness ==
    LET L == dsl_file.lines
        F == Fields(ndugff_dict.items)
        line(t, v) == \E i \in 1..Len(L) : L[i].type = t /\ L[i].val = v
        field(t, v) == \E i \in 1..Len(F) : F[i].type = t /\ F[i].ival = v
    IN  /\ last = Op("load_ndugff", "ok")
        /\ line("gff.Dword", MinusOne) /\ field("gff.Dword", GFF_UINT32_SENTINEL)
        /\ line("gff.Int", MinusOne) /\ field("gff.Int", MkInt(-1))
        /\ line("gff.Dword64", IntToStr(GFF_UINT32_SENTINEL))
        /\ field("gff.Dword64", GFF_UINT32_SENTINEL)
        /\ \E i \in 1..Len(L) : L[i].type = "gff.Struct" /\ L[i].sid = MinusOne
        /\ \E i \in 1..Len(F) : F[i].type = "gff.Struct" /\ F[i].id = GFF_UINT32_SENTINEL

\* the text holds a CR right before a LF
HasCRLF(str) == \E i \in 1..(Len(str) - 1) : str[i] = CR /\ str[i + 1] = LF

\* every gff.CExoString and every localized text under the items has no
\* CR LF pair and no trailing whitespace
TextsNormalized(items) ==
    LET F == Fields(items)
    IN  \A i \in 1..Len(F) :
            F[i].type \in ESCAPED_STRING_TYPES
                => (~HasCRLF(F[i].sval) /\ RStrip(F[i].sval) = F[i].sval)

\* C11: after a load_gff, load_json or load_ndugff that ended well, every
\* gff.CExoString and every localized text of the document has no CR LF pair
\* and no trailing whitespace.
C11_StringNormalization ==
    (last.op \in {"load_gff", "load_json", "load_ndugff"} /\ last.outcome = "ok")
        => TextsNormalized(ndugff_dict.items)

RECURSIVE LabelsDistinct(_)
\* the fields of the struct have pairwise distinct names, and so have the
\* fields of every struct under them
LabelsDistinct(items) ==
    /\ \A i, j \in 1..Len(items) : i # j => items[i].name # items[j].name
    /\ \A i \in 1..Len(items) :
           IF items[i].type = "gff.Struct" THEN LabelsDistinct(items[i].kids)
           ELSE \A j \in 1..Len(items[i].kids) :
                    \A k \in 1..Len(items[i].kids[j].kids) :
                        LabelsDistinct(items[i].kids[j].kids[k].kids)

\* C12: after a load that ended well every struct of the document has
\* pairwise distinct field names; a text that gives one struct the same name
\* twice leaves no struct with two fields of that name.
C12_LabelUniqueness ==
    (last.op \in {"load_gff", "load_json", "load_ndugff"} /\ last.outcome = "ok")
        => \A i \in 1..Len(ndugff_dict.items) :
               ndugff_dict.items[i].type = "gff.Struct"
                   => LabelsDistinct(ndugff_dict.items[i].kids)

RECURSIVE JsonTypeMismatch(_)
\* a field among the members, or under them, has a payload whose shape is
\* not the one of its declared type: a number for a numeric type, a string
\* for a string type, an array for a list, an object for a struct, for a
\* localized string and for every element of a list
JsonTypeMismatch(mem) ==
    \E i \in 1..Len(mem) :
        /\ mem[i].v.jt = "obj"
        /\ IsJsonTypeName(JGet(mem[i].v, K_type))
        /\ LET d == json_get_dsl_type(JGet(mem[i].v, K_type))
               v == IF d = "gff.Base64String" THEN JGet(mem[i].v, K_value64)
                    ELSE JGet(mem[i].v, K_value)
               shape == CASE d \in {"gff.Struct", "gff.CExoLocString"} -> "obj"
                          [] d = "gff.List" -> "arr"
                          [] InternalValueType(d) = "str" -> "str"
                          [] OTHER -> "int"
           IN  /\ v.jt # "null"
               /\ \/ v.jt # shape
                  \/ d = "gff.Struct" /\ JsonTypeMismatch(JDel(v, K_struct_id).mem)
                  \/ /\ d = "gff.List"
                     /\ \E j \in 1..Len(v.mem) :
                            \/ v.mem[j].v.jt # "obj"
                            \/ JsonTypeMismatch(JDel(v.mem[j].v, K_struct_id).mem)

\* C13: load_json of a document in which the payload of a field has not the
\* shape of the field's declared type does not end well and leaves the
\* document of the instance as it was.
C13_JsonTypeMismatch ==
    [][(last'.op = "load_json" /\ json_file.exists /\ ~json_file.malformed
        /\ json_file.value.jt = "obj"
        /\ JsonTypeMismatch(JDel(json_file.value, K_data_type).mem))
       => (last'.outcome # "ok" /\ ndugff_dict' = ndugff_dict)]_vars

\* a load_json of a document that gives a numeric field a string of digits
\* has been refused, and the instance holds what it held before
C13_Witness ==
    /\ last = Op("load_json", "ValueError")
    /\ json_file.exists /\ ~json_file.malformed /\ json_file.value.jt = "obj"
    /\ \E i \in 1..Len(json_file.value.mem) :
           LET f == json_file.value.mem[i].v
           IN  /\ f.jt = "obj"
               /\ JGet(f, K_type) = JStr(JsonTypeName("gff.Byte"))
               /\ JGet(f, K_value) = JStr(<<"1">>)
    /\ ndugff_dict = NoneDict

\* the names and types of the fields in the order they are held, and under
\* each field the same of its struct, or of the struct of each of its elements
Held(name, type, under) == [name |-> name, type |-> type, under |-> under]

RECURSIVE DictOrder(_)
DictOrder(items) ==
    [i \in 1..Len(items) |->
        Held(items[i].name, items[i].type,
             IF items[i].type = "gff.Struct" THEN <<DictOrder(items[i].kids)>>
             ELSE IF items[i].type = "gff.List"
             THEN [j \in 1..Len(items[i].kids) |-> DictOrder(items[i].kids[j].kids[1].kids)]
             ELSE <<>>)]

RECURSIVE GffOrder(_)
GffOrder(fields) ==
    [i \in 1..Len(fields) |->
        Held(fields[i].name, gff_get_dsl_type(fields[i].type),
             IF gff_get_dsl_type(fields[i].type) = "gff.Struct" THEN <<GffOrder(fields[i].kids)>>
             ELSE IF gff_get_dsl_type(fields[i].type) = "gff.List"
             THEN [j \in 1..Len(fields[i].kids) |-> GffOrder(fields[i].kids[j].kids)]
             ELSE <<>>)]

RECURSIVE JsonOrder(_)
JsonOrder(mem) ==
    [i \in 1..Len(mem) |->
        LET d == json_get_dsl_type(JGet(mem[i].v, K_type))
            v == JGet(mem[i].v, K_value)
        IN  Held(mem[i].k, d,
                 IF d = "gff.Struct" THEN <<JsonOrder(JDel(v, K_struct_id).mem)>>
                 ELSE IF d = "gff.List"
                 THEN [j \in 1..Len(v.mem) |-> JsonOrder(JDel(v.mem[j].v, K_struct_id).mem)]
                 ELSE <<>>)]

\* the fields of the root struct of the document
RootFields(d) ==
    IF NamedLast(d.items, ROOT_NAME) = <<>> THEN <<>>
    ELSE NamedLast(d.items, ROOT_NAME)[1].kids

\* C14: after a load_gff or a load_json that ended well the fields of every
\* struct of the document are held in the order the input gives them.
C14_ReadKeepsOrder ==
    /\ last = Op("load_gff", "ok")
           => DictOrder(RootFields(ndugff_dict)) = GffOrder(gff_file.root.kids)
    /\ last = Op("load_json", "ok")
           => DictOrder(RootFields(ndugff_dict))
                  = JsonOrder(JDel(json_file.value, K_data_type).mem)

\* a scope of the text: the node that opened it and the last line met in it
Scope(node, has, key) == [node |-> node, has |-> has, key |-> key]

RECURSIVE ScopesSorted(_, _)
\* in every struct and every localized string of the text, and at its top,
\* each field line comes after a line whose (position of the type in the
\* registry, lowercased name) is not greater
ScopesSorted(lines, stack) ==
    IF lines = <<>> THEN TRUE
    ELSE IF lines[1].kind = "end"
    THEN ScopesSorted(Tail(lines), SubSeq(stack, 1, Len(stack) - 1))
    ELSE IF lines[1].kind # "field" THEN ScopesSorted(Tail(lines), stack)
    ELSE /\ (stack[Len(stack)].node # "gff.List" /\ stack[Len(stack)].has)
                => SortKeyLeq(stack[Len(stack)].key, lines[1])
         /\ ScopesSorted(Tail(lines),
                [stack EXCEPT ![Len(stack)] = Scope(@.node, TRUE, lines[1])]
                \o (IF lines[1].type \in NODE_TYPES
                    THEN <<Scope(lines[1].type, FALSE, lines[1])>> ELSE <<>>))

\* the field lines of the text are the fields of the document in the order
\* they are held, the elements of every list among them
HeldOrderWritten(items, lines) ==
    LET F == Fields(items)
        L == FieldLines(lines)
    IN  /\ Len(F) = Len(L)
        /\ \A i \in 1..Len(F) :
               /\ L[i].type = F[i].type /\ L[i].name = F[i].name
               /\ F[i].type = "gff.Struct" => L[i].sid = IntToStr(get_pretty_sentinel(F[i].id))

\* C15: in the text write_ndugff left, the fields of each struct and the
\* entries of each localized string are sorted by the position of their type
\* in the registry and then by lowercased name, and the elements of each list
\* are in the order the document holds them.
C15_CanonicalEmitOrder ==
    last = Op("write_ndugff", "ok")
        => /\ ScopesSorted(dsl_file.lines, <<Scope("", FALSE, EndLine)>>)
           /\ HeldOrderWritten(ndugff_dict.items, dsl_file.lines)

\* a text has been written from a binary file whose root gives its fields,
\* the fields of a struct and the entries of a localized string out of the
\* canonical order, and has a list of two elements
C15_Witness ==
    /\ last = Op("write_ndugff", "ok")
    /\ gff_file.exists /\ ~gff_file.partial
    /\ gff_file.root.kids = GffFieldPool
    /\ DictOrder(RootFields(ndugff_dict)) # GffOrder(gff_file.root.kids)
    /\ \E i \in 1..Len(dsl_file.lines) : dsl_file.lines[i].type = "gff.Language"

\* the first 4 characters of the text, with blanks behind them up to 4
FourChars(str) == [i \in 1..4 |-> IF i <= Len(str) THEN str[i] ELSE SP]

\* the value a line gives between its quotes
GivenValue(val) ==
    IF Len(val) >= 2 /\ val[1] = QUOTE /\ val[Len(val)] = QUOTE
    THEN SubSeq(val, 2, Len(val) - 1) ELSE val

\* C16: after a load_ndugff that ended well every gff.MagicTag of the
\* document has exactly 4 characters, the first 4 characters of the value a
\* gff.MagicTag line of that name gives, with blanks behind them; and every
\* such line of a text without comments, blank lines and open scopes is
\* stored so.
C16_MagicTagNormalization ==
    last = Op("load_ndugff", "ok") =>
        LET F == Fields(ndugff_dict.items)
            L == FieldLines(dsl_file.lines)
            stored(f, ln) == /\ f.type = "gff.MagicTag" /\ ln.type = "gff.MagicTag"
                             /\ f.name = ln.name /\ ln.hasVal
                             /\ f.sval = FourChars(GivenValue(ln.val))
        IN  /\ \A i \in 1..Len(F) :
                   F[i].type = "gff.MagicTag"
                       => (Len(F[i].sval) = 4 /\ \E j \in 1..Len(L) : stored(F[i], L[j]))
            /\ (WithoutComments(dsl_file.lines) = dsl_file.lines
                /\ ScopeDepth(dsl_file.lines, 0) = 0)
                   => \A j \in 1..Len(L) :
                          L[j].type = "gff.MagicTag" => \E i \in 1..Len(F) : stored(F[i], L[j])

\* a text that gives a file type of 5 characters has been loaded, and the
\* first 4 of them are stored
C16_Witness ==
    /\ last = Op("load_ndugff", "ok")
    /\ \E i \in 1..Len(dsl_file.lines) :
           /\ dsl_file.lines[i].type = "gff.MagicTag"
           /\ dsl_file.lines[i].val = Quoted(<<"U", SP, "U", "U", "U">>)
    /\ \E i \in 1..Len(ndugff_dict.items) :
           /\ ndugff_dict.items[i].type = "gff.MagicTag"
           /\ ndugff_dict.items[i].sval = <<"U", SP, "U", "U">>

RECURSIVE JsonLocs(_)
RECURSIVE JsonLocsOfList(_)
\* the localized strings among the members and under them: the name of each
\* and its value object
JsonLocsOfList(elems) ==
    IF elems = <<>> THEN <<>>
    ELSE (IF elems[1].v.jt = "obj" THEN JsonLocs(elems[1].v.mem) ELSE <<>>)
         \o JsonLocsOfList(Tail(elems))

JsonLocs(mem) ==
    IF mem = <<>> THEN <<>>
    ELSE LET f == mem[1].v
             t == JGet(f, K_type)
             v == JGet(f, K_value)
             is(d) == f.jt = "obj" /\ t = JStr(JsonTypeName(d))
         IN  (IF is("gff.CExoLocString") /\ v.jt = "obj" THEN <<Member(mem[1].k, v)>>
              ELSE IF is("gff.Struct") /\ v.jt = "obj" THEN JsonLocs(v.mem)
              ELSE IF is("gff.List") /\ v.jt = "arr" THEN JsonLocsOfList(v.mem)
              ELSE <<>>)
             \o JsonLocs(Tail(mem))

\* the localized strings of the document
DocLocs(items) == SelectSeq(Fields(items), LAMBDA f : f.type = "gff.CExoLocString")

\* the strrefs a localized string of the document holds
Strrefs(f) == {f.kids[i].ival : i \in {j \in 1..Len(f.kids) :
                  f.kids[j].type = "gff.Dword" /\ f.kids[j].name = STRREF_NAME}}

\* the decimal texts "0" .. "11"
LanguageIdTexts == {IntToStr(MkInt(i)) : i \in 0..11}

\* the value object v is the one write_json owes the localized string f
LocShape(f, v) ==
    /\ JHas(v, K_id) <=> (Strrefs(f) \ {GFF_UINT32_SENTINEL} # {})
    /\ JHas(v, K_id) => (JGet(v, K_id).jt = "int" /\ JGet(v, K_id).ival \in Strrefs(f))
    /\ \A i \in 1..Len(v.mem) :
           v.mem[i].k # K_id =>
               /\ v.mem[i].k \in LanguageIdTexts
               /\ \E j \in 1..Len(f.kids) :
                      /\ f.kids[j].type = "gff.Language"
                      /\ IsLanguageName(f.kids[j].name)
                      /\ LanguageName(StrToInt(v.mem[i].k).lo) = f.kids[j].name
                      /\ v.mem[i].v = JStr(f.kids[j].sval)
    /\ \A j \in 1..Len(f.kids) :
           f.kids[j].type = "gff.Language"
               => \E i \in 1..Len(v.mem) :
                      /\ v.mem[i].k \in LanguageIdTexts
                      /\ LanguageName(StrToInt(v.mem[i].k).lo) = f.kids[j].name

\* C17: the value object write_json gives a localized string has the key
\* "id" exactly when the strref is not 0xFFFFFFFF, and each of its other keys
\* is the decimal id, "0" to "11", of a stored entry; load_json gives a value
\* object without "id" the strref 0xFFFFFFFF.
C17_LocStringJsonShape ==
    /\ last = Op("write_json", "ok") =>
           LET J == JsonLocs(json_file.value.mem)
               D == DocLocs(ndugff_dict.items)
           IN  /\ \A i \in 1..Len(J) :
                      \E j \in 1..Len(D) : D[j].name = J[i].k /\ LocShape(D[j], J[i].v)
               /\ LabelsDistinct(RootFields(ndugff_dict))
                      => \A j \in 1..Len(D) :
                             \E i \in 1..Len(J) : D[j].name = J[i].k /\ LocShape(D[j], J[i].v)
    /\ last = Op("load_json", "ok") =>
           LET J == JsonLocs(json_file.value.mem)
               D == DocLocs(ndugff_dict.items)
           IN  \A i \in 1..Len(J) :
                   ~JHas(J[i].v, K_id)
                       => \E j \in 1..Len(D) :
                              D[j].name = J[i].k /\ Strrefs(D[j]) = {GFF_UINT32_SENTINEL}

\* a document with a localized string of strref 17 and one of strref
\* 0xFFFFFFFF with two entries has been written by write_json, with "id" in
\* the first value object only, and read back by load_json
C17_Witness ==
    /\ last = Op("load_json", "ok")
    /\ gff_file.exists
    /\ LET J == JsonLocs(json_file.value.mem)
           D == DocLocs(ndugff_dict.items)
       IN  /\ \E i \in 1..Len(J) : JGet(J[i].v, K_id) = JInt(MkInt(17))
           /\ \E i \in 1..Len(J) :
                  ~JHas(J[i].v, K_id) /\ JHas(J[i].v, <<"0">>) /\ JHas(J[i].v, <<"2">>)
           /\ \E j \in 1..Len(D) : Strrefs(D[j]) = {MkInt(17)}
           /\ \E j \in 1..Len(D) : Strrefs(D[j]) = {GFF_UINT32_SENTINEL} /\ Len(D[j].kids) = 3

\* the path ends in the suffix and has, right before it, a suffix of the GFF
\* family
HasGffInnerSuffix(path, suffix) ==
    /\ Len(path.suffixes) >= 2
    /\ Lower(path.suffixes[Len(path.suffixes)]) = suffix
    /\ Lower(path.suffixes[Len(path.suffixes) - 1]) \in FILE_EXTENSIONS("gff")

\* C18: is_ndugff_file and is_json_file accept a path only if it ends in
\* .ndugff, in .json for the second, and has an inner suffix of the GFF
\* family.
C18_TextPathsNeedInnerSuffix ==
    /\ (call.fn = "is_ndugff_file" /\ call.ret)
           => HasGffInnerSuffix(call.path, <<".", "n", "d", "u", "g", "f", "f">>)
    /\ (call.fn = "is_json_file" /\ call.ret)
           => HasGffInnerSuffix(call.path, <<".", "j", "s", "o", "n">>)

\* C20: _get_erf_type_by_extension gives an extension it knows the type of
\* that extension and prints nothing, and gives every other extension the 4
\* bytes "ERF " and prints the message.
C20_ErfTypeFallback ==
    call.fn = "_get_erf_type_by_extension" =>
        IF Lower(call.ext) \in ERF_EXTENSIONS
        THEN call.erf_type = ERF_TYPES(Lower(call.ext)) /\ ~call.printed
        ELSE call.erf_type = <<"E", "R", "F", " ">> /\ call.printed

\* a gff.Struct line of the text has no id, or a line of a type that is no
\* node has no value
LineLacksPart(lines) ==
    \E i \in 1..Len(lines) :
        /\ lines[i].kind = "field"
        /\ \/ lines[i].type = "gff.Struct" /\ ~lines[i].hasSid
           \/ lines[i].type \notin NODE_TYPES /\ ~lines[i].hasVal

\* C19: load_ndugff of a text with a gff.Struct line without .id(...) or with
\* a line of a type that is no node without ': value' does not end well and
\* leaves the document as it was, so the line gives the document no field.
C19_FieldLineRequirements ==
    [][(last'.op = "load_ndugff" /\ dsl_file.exists /\ LineLacksPart(dsl_file.lines))
       => (last'.outcome # "ok" /\ ndugff_dict' = ndugff_dict)]_vars

\* the load of a text with a gff.CExoString line without value, behind a
\* comment, has been refused, and the instance holds no document
C19_Witness ==
    /\ last = Op("load_ndugff", "ValueError")
    /\ \E i \in 2..Len(dsl_file.lines) :
           /\ dsl_file.lines[i - 1].kind = "comment"
           /\ dsl_file.lines[i].type = "gff.CExoString" /\ ~dsl_file.lines[i].hasVal
    /\ ndugff_dict = NoneDict

\* the last suffix of the path, in lower case
LastSuffix(path) == Lower(path.suffixes[Len(path.suffixes)])

\* C21: the extensions is_erf_file and is_erf_folder accept are the
\* extensions of _ERF_TYPES: an accepted path has an extension that gets its
\* own type, without the fallback, and a file or folder that is there under a
\* name with one suffix, an extension of _ERF_TYPES, is accepted.
C21_ErfExtensionSymmetry ==
    /\ (call.fn \in {"is_erf_file", "is_erf_folder"} /\ call.ret)
           => ~get_erf_type_by_extension(LastSuffix(call.path)).printed
    /\ (call.fn \in {"is_erf_file", "is_erf_folder"}
        /\ call.path.is_path /\ Len(call.path.suffixes) = 1
        /\ LastSuffix(call.path) \in ERF_EXTENSIONS
        /\ call.path.found = (IF call.fn = "is_erf_file" THEN "file" ELSE "dir"))
           => call.ret


\* the entries an archive holds
ArchiveEntries(archive) == {archive[i] : i \in DOMAIN archive}
\* a .hak archive was extracted and its folder made into an archive, both to the end
HakRoundTripMade ==
    /\ erf.log = <<[op |-> "extract_erf_to_folder", outcome |-> "ok"],
                   [op |-> "create_erf_from_folder", outcome |-> "ok"]>>
    /\ LastSuffix(erf.input_fp) = <<".", "h", "a", "k">>
\* the writer was asked for type "HAK " and for the entries of the archive
HakRoundTripExact ==
    /\ erf.out.file_type = <<"H", "A", "K", " ">>
    /\ erf.out.added = ArchiveEntries(erf.archive)
\* before the extraction the folder held nothing glob("*.*") finds but what
\* the extraction writes over
FolderOwnedByArchive ==
    \A f \in erf.folder0.files :
        glob_dotted(f.name) => \E e \in ArchiveEntries(erf.archive) : e.name = f.name

\* C22 (as stated): extracting a .hak archive and making an archive of the
\* resulting folder asks the writer for type "HAK " and adds exactly the
\* (name, bytes) pairs the archive held
C22_ErfRoundTrip == HakRoundTripMade => HakRoundTripExact

\* C22 (amended): the same, where the folder held before the extraction no
\* entry with a dot in its name other than those the archive writes over
C22_ErfRoundTripOwnFolder == (HakRoundTripMade /\ FolderOwnedByArchive) => HakRoundTripExact

\* C22 witness: a round trip of an archive of two resources named in upper
\* case, through a folder that held a file the extraction wrote over
C22_Witness ==
    /\ HakRoundTripMade /\ FolderOwnedByArchive
    /\ Len(erf.archive) = 2
    /\ erf.input_fp.suffixes = <<<<".", "H", "A", "K">>>>
    /\ \E f \in erf.folder0.files : glob_dotted(f.name) /\ f.data # erf.archive[1].data


\* C23: a write that fails at any step leaves under the target path what was
\* there before, no file or the previous content, never a truncated file.
C23_NoPartialOutput ==
    [][(last'.op \in {"write_gff", "write_json", "write_ndugff"} /\ last'.outcome # "ok")
       => (gff_file' = gff_file /\ json_file' = json_file /\ dsl_file' = dsl_file)]_vars


\* the names a recipe lists in the fullname of its lines, as the export
\* compares them: in lower case
RECURSIVE ListedNames(_)
ListedNames(entries) ==
    IF entries = <<>> THEN {}
    ELSE LET pieces == value_pieces(Get(Head(entries), "fullname"), <<>>)
         IN  {Lower(pieces[i]) : i \in DOMAIN pieces} \cup ListedNames(Tail(entries))
\* the name matches a pattern group of one of the lines
InSomeGroup(name, entries) ==
    \E i \in DOMAIN entries :
        /\ Without(entries[i], "fullname") # <<>>
        /\ GroupMatches(name, PatternGroup(Without(entries[i], "fullname")))
Blacklisted == Lower(keybif.resource) \in ListedNames(keybif.filter_data.exclude)
Whitelisted == Lower(keybif.resource) \in ListedNames(keybif.filter_data.match)
ExcludedByPattern == InSomeGroup(Lower(keybif.resource), keybif.filter_data.exclude)
MatchedByPattern == InSomeGroup(Lower(keybif.resource), keybif.filter_data.match)

\* C24: the export decision follows the rule priority: a name in
\* exclude.fullname is never exported; otherwise a name in match.fullname
\* always is; otherwise a name matching an exclude pattern group is not;
\* otherwise the name is exported iff it matches some match pattern group.
C24_RecipeRulePriority ==
    keybif.fn = "_is_match" =>
        /\ Blacklisted => ~keybif.ret
        /\ (~Blacklisted /\ Whitelisted) => keybif.ret
        /\ (~Blacklisted /\ ~Whitelisted /\ ExcludedByPattern) => ~keybif.ret
        /\ (~Blacklisted /\ ~Whitelisted /\ ~ExcludedByPattern)
               => (keybif.ret <=> MatchedByPattern)

\* a resource named in upper case, on the blacklist and on the whitelist,
\* has been decided
C24_Witness ==
    /\ keybif.fn = "_is_match"
    /\ Blacklisted /\ Whitelisted /\ ~keybif.ret
    /\ keybif.resource # Lower(keybif.resource)


\* the lines of the given type in the block a recipes file declares at
\* position h: those between its header and the next header
BlockLines(tokens, h, type) ==
    LET next == IF \E j \in (h + 1)..Len(tokens) : tokens[j].type \in {"source", "recipe"}
                THEN CHOOSE j \in (h + 1)..Len(tokens) :
                         /\ tokens[j].type \in {"source", "recipe"}
                         /\ \A k \in (h + 1)..(j - 1) : tokens[k].type \notin {"source", "recipe"}
                ELSE Len(tokens) + 1
        lines == SelectSeq(SubSeq(tokens, h + 1, next - 1), LAMBDA t : t.type = type)
    IN  [i \in DOMAIN lines |-> lines[i].props]
\* the positions of the blocks of the given type declared with the id
Declared(tokens, type, id) ==
    {h \in DOMAIN tokens : /\ tokens[h].type = type
                           /\ Has(tokens[h].props, "id")
                           /\ StrToInt(Get(tokens[h].props, "id")) = StrToInt(id)}
\* the selection of a recipes file
Selected(tokens, k) == Get(tokens[1].props, k)

\* C25: selected.source_id(N).recipe_id(M) resolves to the source block
\* declared with id N and the recipe block declared with id M, for every id
\* a block may declare, 0 included, and the default recipes file resolves
\* without error.
C25_SelectionById ==
    keybif.fn = "_get_structured_input" =>
        LET tokens == keybif.tokens
            out == keybif.out
        IN  /\ \A h \in Declared(tokens, "source", Selected(tokens, "source_id")) :
                   /\ out.err = ""
                   /\ \A line \in {BlockLines(tokens, h, "game")[i] :
                                       i \in DOMAIN BlockLines(tokens, h, "game")} :
                          \A i \in DOMAIN line : Get(out.game, line[i][1]) = line[i][2]
            /\ \A h \in Declared(tokens, "recipe", Selected(tokens, "recipe_id")) :
                   out.err = ""
                       => /\ out.found
                          /\ out.recipe_id = StrToInt(Selected(tokens, "recipe_id"))
                          /\ out.match = BlockLines(tokens, h, "match")
                          /\ out.exclude = BlockLines(tokens, h, "exclude")
            /\ tokens = DefaultRecipes => out.err = ""


\* C26: a write emits the document of the most recent load; where the most
\* recent load failed or was passed by, the write that follows it emits
\* nothing, rather than the document of an earlier load.
C26_NoStaleOutput ==
    [][(/\ last.op \in {"load_gff", "load_json", "load_ndugff"}
        /\ last.outcome # "ok"
        /\ last'.op \in {"write_gff", "write_json", "write_ndugff"})
       => (gff_file' = gff_file /\ json_file' = json_file /\ dsl_file' = dsl_file)]_vars


\* C27: for each converter of _Gff._Batch and every input its validator
\* accepts, the output path its output_namer gives is accepted by the path
\* check of the writer it is handed to.
C27_BatchPairsAccepted ==
    call.fn \in {"convert_gff_to_json", "convert_json_to_gff", "convert_gff_to_ndugff",
                 "convert_ndugff_to_gff", "convert_json_to_ndugff", "convert_ndugff_to_json"}
        => call.ret


\* the position of the line the load of the text stops at: the first line
\* with which the lines read so far are refused
OffendingLine(lines) ==
    CHOOSE i \in 1..Len(lines) :
        /\ ParseLines(ParserInit, SubSeq(lines, 1, i)).err # ""
        /\ ParseLines(ParserInit, SubSeq(lines, 1, i - 1)).err = ""

\* C28: the line number a DSL parse error reports is the 1-based position
\* of the offending line in the file, also where comment or blank lines
\* come before it.
C28_ErrorLineNumber ==
    [][(last'.op = "load_ndugff" /\ last'.outcome = "ValueError")
       => printed_line' = OffendingLine(ReadLines(dsl_file.lines))]_vars


\* the lines of a text that open a node, and its end() lines
OpensNode(ln) == ln.kind = "field" /\ ln.type \in NODE_TYPES
CountLines(lines, Is(_)) == Len(SelectSeq(lines, Is))
IsEndLine(ln) == ln.kind = "end"
\* a node of the given type is opened and closed on the next line
EmptyNodeWritten(lines, type) ==
    \E i \in 1..(Len(lines) - 1) :
        OpensNode(lines[i]) /\ lines[i].type = type /\ IsEndLine(lines[i + 1])

BuiltDocument ==
    IF last.op = "load_ndugff" THEN build_ndugff_dict(dsl_file.lines).stack[1].kids
    ELSE <<[gff_get_ndugff_key("gff.MagicTag", TYPE_NAME, FALSE, Zero)
              EXCEPT !.sval = gff_file.file_type],
           [gff_get_ndugff_key("gff.Struct", ROOT_NAME, FALSE, Zero)
              EXCEPT !.kids = gff_get_ndugff_dict(gff_file.root.kids)]>>

RECURSIVE SameFields(_, _)
RECURSIVE SameField(_, _)
\* the two fields have the same key and the same value: the elements of a
\* list in the same order, the fields of a dict in any order
SameField(x, y) ==
    /\ [x EXCEPT !.kids = <<>>] = [y EXCEPT !.kids = <<>>]
    /\ IF x.type = "gff.List"
       THEN /\ Len(x.kids) = Len(y.kids)
            /\ \A k \in DOMAIN x.kids : SameFields(x.kids[k].kids, y.kids[k].kids)
       ELSE SameFields(x.kids, y.kids)
\* b holds the fields of a, each as many times as a holds it
SameFields(a, b) ==
    /\ Len(a) = Len(b)
    /\ \A i \in DOMAIN a :
           Cardinality({j \in DOMAIN a : SameField(a[j], a[i])})
               = Cardinality({j \in DOMAIN b : SameField(b[j], a[i])})
\* two fields of one dict of the document share type and lowercased name
RECURSIVE SharesSortKey(_)
SharesSortKey(items) ==
    \/ \E i, j \in DOMAIN items :
           i # j /\ items[i].type = items[j].type
                 /\ Lower(items[i].name) = Lower(items[j].name)
    \/ \E i \in DOMAIN items : SharesSortKey(items[i].kids)

\* C30: reorder is an idempotent permutation: the reordered document holds
\* the fields of the document with their values at every level, none dropped,
\* repeated or merged, the elements of a list in their order, and reordering
\* it again changes nothing.
C30_ReorderIdempotentPermutation ==
    (last = Op("load_ndugff", "ok") \/ last = Op("load_gff", "ok")) =>
        /\ SameFields(BuiltDocument, reorder(BuiltDocument))
        /\ reorder(reorder(BuiltDocument)) = reorder(BuiltDocument)
        /\ ndugff_dict.items = reorder(BuiltDocument)

\* a document with two fields of one type and one lowercased name in one
\* struct has been loaded, and holds as many fields as were built
C30_Witness ==
    /\ last = Op("load_ndugff", "ok")
    /\ SharesSortKey(BuiltDocument)
    /\ Len(ndugff_dict.items) = Len(BuiltDocument)

====
